---- MODULE Spec2Model ----
(***************************************************************************)
(* mcp-observatory: the SDK event collector (packages/sdk/src/             *)
(* observatory.ts) with its reporter, and the file data source of the      *)
(* MCP server (packages/mcp-server/src/datasources/file.ts).               *)
(***************************************************************************)
EXTENDS Integers, Sequences, FiniteSets, TLC

(***************************************************************************)
(* Bounds of the model.                                                    *)
(***************************************************************************)
\* Events the collector creates in one run (generateEventId calls).
MaxEvents == 3
\* Largest configured batchSize.
MaxBatchSize == 2
\* Math.random() is drawn from {0, 1/RandScale, .., (RandScale-1)/RandScale};
\* the sampling rate is s/RandScale for s in 0..RandScale.
RandScale == 2
\* Rejected reporter.send calls in one run.
MaxFailures == 1
\* Lines the writer puts into the log file in one run.
MaxLines == 3
\* The clock of the data source's process advances in steps of TickMs, at most
\* MaxTicks times.
TickMs == 2500
MaxTicks == 2

VARIABLES
  \* ---- Observatory (observatory.ts:34-41) ----
  sampling,       \* this.sampling, in units of 1/RandScale
  batchSize,      \* this.batchSize
  eventQueue,     \* this.eventQueue
  batchTimer,     \* this.batchTimer: "null", "pending" (armed), "fired" (stale handle)
  timeouts,       \* the setTimeout calls still to fire (by the event that armed them),
                  \* and the one this.batchTimer is the handle of (0: none)
  inflight,       \* reporter.send(events) promises not yet settled, with the flush() caller
  delivered,      \* the events of the send calls that resolved, in resolution order
  nextId,         \* events created so far; an event is modelled by its number
  lastCall,       \* the record call that ran last, and whether it reached addEvent
  failures,       \* times the catch block of flush() ran
  lastFlush,      \* the flush() that settled last: how its send ended, its promise
  unhandled,      \* whether a flush() nobody awaits has rejected
  pcShutdown,     \* position of the shutdown() call
  shutdownEvents, \* the local `events` of the flush() that shutdown() awaits
  shutdownSend,   \* what became of that flush(): "none", "empty", "pending", "ok", "error"
  \* ---- the log file and the clock of the reading process ----
  fileExists,     \* whether config.filePath exists
  fileLines,      \* its content, line by line
  fileMtime,      \* its modification time (stats.mtimeMs)
  now,            \* Date.now()
  \* ---- FileDataSource (file.ts:480-482) ----
  eventsCache,    \* this.eventsCache: NoCache (null) or the parsed events
  lastCacheTime,  \* this.lastCacheTime
  lastFileModificationTime, \* this.lastFileModificationTime
  loads,          \* the loadEvents() calls in progress: position and locals
  \* ---- FileReporter (reporters/file.ts:35-36) and the directory of its file ----
  dirState,       \* dirname(config.filePath): "missing", "dir", or "file" (not a directory)
  fileCreated,    \* this.fileCreated
  sends,          \* the send() calls in progress: position and locals
  written,        \* the events of the appends that succeeded, as they were passed to send()
  \* ---- the answer of the data source's last query ----
  view

collectorVars == <<sampling, batchSize, eventQueue, batchTimer, timeouts, inflight, delivered,
                   nextId, lastCall, failures, lastFlush, unhandled, pcShutdown,
                   shutdownEvents, shutdownSend>>

fileVars == <<fileExists, fileLines, fileMtime>>
cacheVars == <<eventsCache, lastCacheTime, lastFileModificationTime>>
loaderVars == <<fileVars, now, cacheVars, loads>>

sinkVars == <<dirState, fileCreated, sends, written>>

vars == <<collectorVars, loaderVars, sinkVars, view>>

(***************************************************************************)
(* Observatory                                                             *)
(***************************************************************************)
Draws == 0 .. (RandScale - 1)
\* Rate 0, the smallest rate above 0, and rate 1.
SamplingRates == {0, 1, RandScale}
BatchSizes == 1 .. MaxBatchSize

\* trackToolCall returns early when Math.random() > this.sampling.
SampledOut(draw, rate) == draw > rate

\* addEvent: this.eventQueue.length >= this.batchSize
BatchReachedGT(len, size) == len > size
BatchReached(len, size) == len >= size

\* A catch block that does not put the events back.
RequeueDropping(events, queue) == queue

\* flush, catch block: this.eventQueue.unshift(...events)
RequeueAppend(events, queue) == queue \o events
Requeue(events, queue) == events \o queue

\* The outcome of the promise flush() returns, given how reporter.send ended
\* ("none": the queue was empty and send was not called).  The try/catch
\* around the await swallows the rejection.
FlushOutcomeRethrow(send) == IF send = "error" THEN "rejected" ELSE "fulfilled"
FlushOutcome(send) == "fulfilled"

\* A rejected flush() promise nobody awaits: the calls in addEvent and in the
\* timer callback are not awaited.
Unhandled(origin, promise) ==
  promise = "rejected" /\ origin \in {"addEvent", "timer"}

\* The settlement of a flush() whose send ended as `send`.
Settle(origin, send) ==
  /\ lastFlush' = [send |-> send, promise |-> FlushOutcome(send)]
  /\ unhandled' = (unhandled \/ Unhandled(origin, FlushOutcome(send)))

\* A flush() that sends the queue and leaves the timer as it is.
FlushKeepingTimer(origin, queue, timer, live) ==
  IF Len(queue) = 0
  THEN /\ eventQueue' = queue
       /\ batchTimer' = timer
       /\ timeouts' = [timeouts EXCEPT !.live = live]
       /\ inflight' = inflight
  ELSE /\ eventQueue' = <<>>
       /\ batchTimer' = timer
       /\ timeouts' = [timeouts EXCEPT !.live = live]
       /\ inflight' = inflight \cup {[events |-> queue, origin |-> origin]}

\* A flush() whose call from the timer callback returns without sending.
FlushSkippingTimer(origin, queue, timer, live) ==
  IF Len(queue) = 0 \/ origin = "timer"
  THEN /\ eventQueue' = queue
       /\ batchTimer' = timer
       /\ timeouts' = [timeouts EXCEPT !.live = live]
       /\ inflight' = inflight
  ELSE /\ eventQueue' = <<>>
       /\ batchTimer' = "null"
       /\ timeouts' = [live |-> live \ {timeouts.handle}, handle |-> 0]
       /\ inflight' = inflight \cup {[events |-> queue, origin |-> origin]}

\* flush() up to its await, called by `origin` with the queue `queue`;
\* `timer` is the value batchTimer keeps when flush returns at once, `live`
\* are the timeouts still to fire.  clearTimeout stops the timeout whose
\* handle this.batchTimer is.
Flush(origin, queue, timer, live) ==
  IF Len(queue) = 0
  THEN /\ eventQueue' = queue
       /\ batchTimer' = timer
       /\ timeouts' = [timeouts EXCEPT !.live = live]
       /\ inflight' = inflight
  ELSE /\ eventQueue' = <<>>
       /\ batchTimer' = "null"
       /\ timeouts' = [live |-> live \ {timeouts.handle}, handle |-> 0]
       /\ inflight' = inflight \cup {[events |-> queue, origin |-> origin]}

\* An addEvent that drops the event.
AddEventDropped(event) == UNCHANGED <<eventQueue, batchTimer, timeouts, inflight>>

\* An addEvent that starts a timer whether or not one is running.
AddEventRearming(event) ==
  LET queue == Append(eventQueue, event) IN
  IF Len(queue) >= batchSize
  THEN /\ eventQueue' = <<>>
       /\ batchTimer' = "null"
       /\ timeouts' = [live |-> timeouts.live \ {timeouts.handle}, handle |-> 0]
       /\ inflight' = inflight \cup {[events |-> queue, origin |-> "addEvent"]}
  ELSE /\ eventQueue' = queue
       /\ batchTimer' = "pending"
       /\ timeouts' = [live |-> timeouts.live \cup {event}, handle |-> event]
       /\ inflight' = inflight

AddEvent(event) ==
  LET queue == Append(eventQueue, event) IN
  IF BatchReached(Len(queue), batchSize)
  THEN Flush("addEvent", queue, batchTimer, timeouts.live)
  ELSE /\ eventQueue' = queue
       /\ IF batchTimer = "null"
          THEN /\ batchTimer' = "pending"
               /\ timeouts' = [live |-> timeouts.live \cup {event}, handle |-> event]
          ELSE UNCHANGED <<batchTimer, timeouts>>
       /\ inflight' = inflight

\* A new Observatory whose batchSize is one of `sizes`.
InitObservatory(sizes) ==
  /\ sampling \in SamplingRates
  /\ batchSize \in sizes
  /\ eventQueue = <<>>
  /\ batchTimer = "null"
  /\ timeouts = [live |-> {}, handle |-> 0]
  /\ inflight = {}
  /\ delivered = <<>>
  /\ nextId = 0
  /\ lastCall = [op |-> "none", enqueued |-> FALSE]
  /\ failures = 0
  /\ lastFlush = [send |-> "none", promise |-> "fulfilled"]
  /\ unhandled = FALSE
  /\ pcShutdown = "idle"
  /\ shutdownEvents = <<>>
  /\ shutdownSend = "none"

InitCollector == InitObservatory(BatchSizes)

\* trackToolCall whose random draw exceeds the sampling rate.
TrackToolCallDropped ==
  /\ \E draw \in Draws : SampledOut(draw, sampling)
  /\ lastCall' = [op |-> "trackToolCall", enqueued |-> FALSE]
  /\ UNCHANGED <<loaderVars, sinkVars, view>>
  /\ UNCHANGED <<sampling, batchSize, eventQueue, batchTimer, timeouts, inflight,
                 delivered, nextId, failures, lastFlush, unhandled, pcShutdown,
                 shutdownEvents, shutdownSend>>

\* trackToolCall that passes the sampling test.
TrackToolCall ==
  /\ nextId < MaxEvents
  /\ \E draw \in Draws : ~SampledOut(draw, sampling)
  /\ AddEvent(nextId + 1)
  /\ nextId' = nextId + 1
  /\ lastCall' = [op |-> "trackToolCall", enqueued |-> TRUE]
  /\ UNCHANGED <<loaderVars, sinkVars, view>>
  /\ UNCHANGED <<sampling, batchSize, delivered, failures, lastFlush, unhandled,
                 pcShutdown, shutdownEvents, shutdownSend>>

TrackError ==
  /\ nextId < MaxEvents
  /\ AddEvent(nextId + 1)
  /\ nextId' = nextId + 1
  /\ lastCall' = [op |-> "trackError", enqueued |-> TRUE]
  /\ UNCHANGED <<loaderVars, sinkVars, view>>
  /\ UNCHANGED <<sampling, batchSize, delivered, failures, lastFlush, unhandled,
                 pcShutdown, shutdownEvents, shutdownSend>>

\* The setTimeout callback armed by addEvent.
TimerFire ==
  /\ \E t \in timeouts.live :
       Flush("timer", eventQueue, IF t = timeouts.handle THEN "fired" ELSE batchTimer,
             timeouts.live \ {t})
  /\ UNCHANGED <<loaderVars, sinkVars, view>>
  /\ UNCHANGED <<sampling, batchSize, delivered, nextId, lastCall, failures, lastFlush,
                 unhandled, pcShutdown, shutdownEvents, shutdownSend>>

\* observatory.flush() called by the application.
FlushCall ==
  /\ Flush("flush", eventQueue, batchTimer, timeouts.live)
  /\ UNCHANGED <<loaderVars, sinkVars, view>>
  /\ UNCHANGED <<sampling, batchSize, delivered, nextId, lastCall, failures, lastFlush,
                 unhandled, pcShutdown, shutdownEvents, shutdownSend>>

\* reporter.send(events) resolves: flush() continues after its await.
SendOk(d) ==
  /\ d \in inflight
  /\ inflight' = inflight \ {d}
  /\ delivered' = delivered \o d.events
  /\ Settle(d.origin, "ok")
  /\ shutdownSend' = IF d.origin = "shutdown" THEN "ok" ELSE shutdownSend
  /\ UNCHANGED <<loaderVars, sinkVars, view>>
  /\ UNCHANGED <<sampling, batchSize, eventQueue, batchTimer, timeouts, nextId,
                 lastCall, failures, pcShutdown, shutdownEvents>>

\* reporter.send(events) rejects: the catch block of flush() runs.
SendFail(d) ==
  /\ d \in inflight
  /\ failures < MaxFailures
  /\ inflight' = inflight \ {d}
  /\ eventQueue' = Requeue(d.events, eventQueue)
  /\ failures' = failures + 1
  /\ Settle(d.origin, "error")
  /\ shutdownSend' = IF d.origin = "shutdown" THEN "error" ELSE shutdownSend
  /\ UNCHANGED <<loaderVars, sinkVars, view>>
  /\ UNCHANGED <<sampling, batchSize, batchTimer, timeouts, delivered, nextId, lastCall,
                 pcShutdown, shutdownEvents>>

\* shutdown() up to `await this.flush()`.
ShutdownCall ==
  /\ pcShutdown = "idle"
  /\ Flush("shutdown", eventQueue, batchTimer, timeouts.live)
  /\ pcShutdown' = "flushing"
  /\ shutdownEvents' = eventQueue
  /\ shutdownSend' = IF Len(eventQueue) = 0 THEN "empty" ELSE "pending"
  /\ UNCHANGED <<loaderVars, sinkVars, view>>
  /\ UNCHANGED <<sampling, batchSize, delivered, nextId, lastCall, failures, lastFlush,
                 unhandled>>

\* Whether the flush() shutdown awaits has settled.
FlushAwaited(send) == send \in {"empty", "ok", "error"}

\* shutdown() after `await this.flush()`: calls reporter.shutdown(), or
\* rejects when flush() rejected.
ShutdownAfterFlush ==
  /\ pcShutdown = "flushing"
  /\ FlushAwaited(shutdownSend)
  /\ pcShutdown' = IF FlushOutcome(shutdownSend) = "rejected"
                   THEN "failed" ELSE "reporterShutdown"
  /\ UNCHANGED <<loaderVars, sinkVars, view>>
  /\ UNCHANGED <<sampling, batchSize, eventQueue, batchTimer, timeouts, inflight,
                 delivered, nextId, lastCall, failures, lastFlush, unhandled,
                 shutdownEvents, shutdownSend>>

\* reporter.shutdown() resolves and with it shutdown().
ShutdownResolve ==
  /\ pcShutdown = "reporterShutdown"
  /\ pcShutdown' = "done"
  /\ UNCHANGED <<loaderVars, sinkVars, view>>
  /\ UNCHANGED <<sampling, batchSize, eventQueue, batchTimer, timeouts, inflight,
                 delivered, nextId, lastCall, failures, lastFlush, unhandled,
                 shutdownEvents, shutdownSend>>

NextCollector ==
  \/ TrackToolCallDropped
  \/ TrackToolCall
  \/ TrackError
  \/ TimerFire
  \/ FlushCall
  \/ \E d \in inflight : SendOk(d)
  \/ \E d \in inflight : SendFail(d)
  \/ ShutdownCall
  \/ ShutdownAfterFlush
  \/ ShutdownResolve

(***************************************************************************)
(* The log file                                                            *)
(***************************************************************************)
\* A line of the file is the JSON text of an event object (modelled by the
\* event, a record), the JSON literal null, text that is not JSON, or empty.
NullLine == [text |-> "null"]
CorruptLine == [text |-> "this is not valid json"]
EmptyLine == [text |-> ""]
EventLine(event) == [text |-> "JSON.stringify(event)", event |-> event]

\* The time at which the model starts.
StartTime == TickMs

\* The event the writer serialises into line number n of the file.
LoggedEvent(n) ==
  [id |-> n, timestamp |-> StartTime, serverId |-> "srv_1", toolName |-> "tool_a",
   duration |-> 100 * n, success |-> (n % 2 = 1)]

\* The clock advances.
Tick ==
  /\ now < StartTime + MaxTicks * TickMs
  /\ now' = now + TickMs
  /\ UNCHANGED <<fileVars, cacheVars, loads>>
  /\ UNCHANGED <<collectorVars, sinkVars, view>>

\* Another process appends one line to the file, creating it when it was never
\* there; a removed file is not written again.
WriterAppend ==
  /\ Len(fileLines) < MaxLines
  /\ fileExists \/ fileMtime = 0
  /\ \E line \in {EventLine(LoggedEvent(Len(fileLines) + 1)), NullLine,
                  CorruptLine, EmptyLine} :
       fileLines' = Append(fileLines, line)
  /\ fileExists' = TRUE
  /\ fileMtime' = now
  /\ UNCHANGED <<now, cacheVars, loads>>
  /\ UNCHANGED <<collectorVars, sinkVars, view>>

\* The file is removed.
FileRemove ==
  /\ fileExists
  /\ fileExists' = FALSE
  /\ fileLines' = <<>>
  /\ UNCHANGED <<fileMtime, now, cacheVars, loads>>
  /\ UNCHANGED <<collectorVars, sinkVars, view>>

\* A writer whose every append changes the modification time: the file gets
\* an event recorded at the time of the write, which is later than the last
\* modification time; the event carries that time as its timestamp.
WriterAppendStamped ==
  LET mtime == IF now > fileMtime THEN now ELSE fileMtime + 1 IN
  /\ Len(fileLines) < MaxLines
  /\ fileLines' = Append(fileLines,
       EventLine([LoggedEvent(Len(fileLines) + 1) EXCEPT !.timestamp = mtime]))
  /\ fileExists' = TRUE
  /\ fileMtime' = mtime
  /\ UNCHANGED <<now, cacheVars, loads>>
  /\ UNCHANGED <<collectorVars, sinkVars, view>>

(***************************************************************************)
(* FileDataSource.loadEvents                                               *)
(***************************************************************************)
CACHE_TTL_MS == 5000

NoCache == <<[events |-> "null"]>>
Null == [json |-> "null"]
SyntaxError == [threw |-> "SyntaxError"]

\* The loadEvents() calls; a query awaits its load before the next one starts.
LoadIds == {"q1"}

\* stat and read: how the file system call ended ("none": not yet run).
IdleLoad ==
  [pc |-> "idle", stat |-> "none", read |-> "none", mtime |-> 0, now |-> 0,
   fileHasChanged |-> FALSE, fresh |-> FALSE, content |-> <<>>, source |-> "none",
   result |-> <<>>]

\* What a file system call can come back with when the file exists.
FsOutcomes == {"ok", "EACCES"}

\* content.trim(): leading and trailing white space goes, and with it the
\* empty lines at both ends.
RECURSIVE TrimStart(_)
TrimStart(lines) ==
  IF lines # <<>> /\ Head(lines) = EmptyLine THEN TrimStart(Tail(lines)) ELSE lines

RECURSIVE TrimEnd(_)
TrimEnd(lines) ==
  IF lines # <<>> /\ lines[Len(lines)] = EmptyLine
  THEN TrimEnd(SubSeq(lines, 1, Len(lines) - 1))
  ELSE lines

Trim(lines) == TrimEnd(TrimStart(lines))

\* .split('\n').filter((line) => line.length > 0)
IsNonEmptyLine(line) == line # EmptyLine
NonEmptyLines(lines) == SelectSeq(Trim(lines), IsNonEmptyLine)

\* JSON.parse(line): the value, or SyntaxError when it throws.
JsonParse(line) ==
  IF line = NullLine THEN Null
  ELSE IF line \in {CorruptLine, EmptyLine} THEN SyntaxError
  ELSE line.event

\* The map callback: try { return JSON.parse(line) } catch { return null }
ParseLine(line) ==
  IF JsonParse(line) = SyntaxError THEN Null ELSE JsonParse(line)

IsNotNull(value) == value # Null

RECURSIVE MapParse(_)
MapParse(lines) ==
  IF lines = <<>> THEN <<>> ELSE <<ParseLine(Head(lines))>> \o MapParse(Tail(lines))

\* The same with a JSON.parse whose exception ends the whole map.
RECURSIVE ParseUntilCorrupt(_)
ParseUntilCorrupt(content) ==
  IF content = <<>> \/ JsonParse(Head(content)) = SyntaxError THEN <<>>
  ELSE SelectSeq(<<JsonParse(Head(content))>>, IsNotNull)
         \o ParseUntilCorrupt(Tail(content))

\* lines.map(...).filter((event) => event !== null)
ParseContent(content) == SelectSeq(MapParse(NonEmptyLines(content)), IsNotNull)

\* cacheIsValid, from its three conjuncts.
CacheIsValidIgnoringMtime(cache, age, fileHasChanged) ==
  cache # NoCache /\ age < CACHE_TTL_MS
CacheIsValidInclusiveTtl(cache, age, fileHasChanged) ==
  cache # NoCache /\ age <= CACHE_TTL_MS /\ ~fileHasChanged
CacheIsValid(cache, age, fileHasChanged) ==
  cache # NoCache /\ age < CACHE_TTL_MS /\ ~fileHasChanged

InitLoader ==
  /\ fileExists = FALSE
  /\ fileLines = <<>>
  /\ fileMtime = 0
  /\ now = StartTime
  /\ eventsCache = NoCache
  /\ lastCacheTime = 0
  /\ lastFileModificationTime = 0
  /\ loads = [k \in LoadIds |-> IdleLoad]

\* loadEvents() is called and its stat() runs.
LoadStat(k) ==
  /\ loads[k].pc = "idle"
  /\ \E fs \in (IF fileExists THEN FsOutcomes ELSE {"ENOENT"}) :
       loads' = [loads EXCEPT ![k] = [IdleLoad EXCEPT !.pc = "statted", !.stat = fs,
                    !.mtime = IF fs = "ok" THEN fileMtime ELSE 0]]
  /\ UNCHANGED <<fileVars, now, cacheVars>>
  /\ UNCHANGED <<collectorVars, sinkVars, view>>

\* The code after `await stat(...)` up to the next await or return.
LoadCheck(k) ==
  LET l == loads[k]
      changed == l.mtime # lastFileModificationTime
      age == now - lastCacheTime
      checked == [l EXCEPT !.now = now, !.fileHasChanged = changed,
                           !.fresh = (eventsCache # NoCache /\ age < CACHE_TTL_MS)]
  IN
  /\ l.pc = "statted"
  /\ loads' = [loads EXCEPT ![k] =
       IF l.stat = "ENOENT" THEN [l EXCEPT !.pc = "done", !.source = "enoent"]
       ELSE IF l.stat # "ok" THEN [l EXCEPT !.pc = "done", !.source = "error"]
       ELSE IF CacheIsValid(eventsCache, age, changed)
       THEN [checked EXCEPT !.pc = "done", !.source = "cache", !.result = eventsCache]
       ELSE [checked EXCEPT !.pc = "reading"]]
  /\ UNCHANGED <<fileVars, now, cacheVars>>
  /\ UNCHANGED <<collectorVars, sinkVars, view>>

\* readFile() runs.
LoadRead(k) ==
  /\ loads[k].pc = "reading"
  /\ loads[k].read = "none"
  /\ \E fs \in (IF fileExists THEN FsOutcomes ELSE {"ENOENT"}) :
       loads' = [loads EXCEPT ![k].read = fs,
                              ![k].content = IF fs = "ok" THEN fileLines ELSE <<>>]
  /\ UNCHANGED <<fileVars, now, cacheVars>>
  /\ UNCHANGED <<collectorVars, sinkVars, view>>

\* The same with the modification time taken when the cache is filled, not
\* from the stat() before the read.
LoadUpdateLateMtime(k) ==
  LET l == loads[k] IN
  /\ l.pc = "reading"
  /\ l.read # "none"
  /\ IF l.read = "ok"
     THEN /\ eventsCache' = ParseContent(l.content)
          /\ lastCacheTime' = l.now
          /\ lastFileModificationTime' = fileMtime
          /\ loads' = [loads EXCEPT ![k].pc = "done", ![k].source = "reload",
                                    ![k].result = ParseContent(l.content)]
     ELSE /\ UNCHANGED cacheVars
          /\ loads' = [loads EXCEPT ![k].pc = "done",
                          ![k].source = IF l.read = "ENOENT" THEN "enoent" ELSE "error"]
  /\ UNCHANGED <<fileVars, now>>
  /\ UNCHANGED <<collectorVars, sinkVars, view>>

\* The same with a catch block that drops the cache.
LoadUpdateDroppingCache(k) ==
  LET l == loads[k] IN
  /\ l.pc = "reading"
  /\ l.read # "none"
  /\ IF l.read = "ok"
     THEN /\ eventsCache' = ParseContent(l.content)
          /\ lastCacheTime' = l.now
          /\ lastFileModificationTime' = l.mtime
          /\ loads' = [loads EXCEPT ![k].pc = "done", ![k].source = "reload",
                                    ![k].result = ParseContent(l.content)]
     ELSE /\ eventsCache' = NoCache
          /\ UNCHANGED <<lastCacheTime, lastFileModificationTime>>
          /\ loads' = [loads EXCEPT ![k].pc = "done",
                          ![k].source = IF l.read = "ENOENT" THEN "enoent" ELSE "error"]
  /\ UNCHANGED <<fileVars, now>>
  /\ UNCHANGED <<collectorVars, sinkVars, view>>

\* The code after `await readFile(...)`: parse, fill the cache, return; or the
\* catch block.
LoadUpdate(k) ==
  LET l == loads[k] IN
  /\ l.pc = "reading"
  /\ l.read # "none"
  /\ IF l.read = "ok"
     THEN /\ eventsCache' = ParseContent(l.content)
          /\ lastCacheTime' = l.now
          /\ lastFileModificationTime' = l.mtime
          /\ loads' = [loads EXCEPT ![k].pc = "done", ![k].source = "reload",
                                    ![k].result = ParseContent(l.content)]
     ELSE /\ UNCHANGED cacheVars
          /\ loads' = [loads EXCEPT ![k].pc = "done",
                          ![k].source = IF l.read = "ENOENT" THEN "enoent" ELSE "error"]
  /\ UNCHANGED <<fileVars, now>>
  /\ UNCHANGED <<collectorVars, sinkVars, view>>

\* The caller has taken the result (or the exception).
LoadReturn(k) ==
  /\ loads[k].pc = "done"
  /\ loads' = [loads EXCEPT ![k] = IdleLoad]
  /\ UNCHANGED <<fileVars, now, cacheVars>>
  /\ UNCHANGED <<collectorVars, sinkVars, view>>

NextLoader ==
  \/ Tick
  \/ WriterAppend
  \/ FileRemove
  \/ \E k \in LoadIds : LoadStat(k)
  \/ \E k \in LoadIds : LoadCheck(k)
  \/ \E k \in LoadIds : LoadRead(k)
  \/ \E k \in LoadIds : LoadUpdate(k)
  \/ \E k \in LoadIds : LoadReturn(k)

(***************************************************************************)
(* FileDataSource.getServerMetrics, single server                          *)
(***************************************************************************)
\* A quotient of two numbers, kept as numerator and denominator.
Rat(n, d) == [num |-> n, den |-> d]

\* The marker of an event without a duration field.
NoDuration == -1

\* filterByTimeRange: half of each window length in milliseconds.  The 30d
\* window, 2 592 000 000 ms, is beyond the integers TLC computes with, so the
\* lengths are kept as halves and `now - ranges[timeRange]` subtracts twice.
HalfRangeMs(timeRange) ==
  CASE timeRange = "5m" -> 5 * 60 * 500
    [] timeRange = "1h" -> 60 * 60 * 500
    [] timeRange = "24h" -> 24 * 60 * 60 * 500
    [] timeRange = "7d" -> 7 * 24 * 60 * 60 * 500
    [] timeRange = "30d" -> 30 * 24 * 60 * 60 * 500

\* const cutoff = now - ranges[timeRange]
Cutoff(time, timeRange) == time - HalfRangeMs(timeRange) - HalfRangeMs(timeRange)

\* The same with a filter that drops the event at the cutoff.
FilterByTimeRangeExclusive(events, timeRange, time) ==
  LET Recent(event) == event.timestamp > Cutoff(time, timeRange)
  IN SelectSeq(events, Recent)

FilterByTimeRange(events, timeRange, time) ==
  LET Recent(event) == event.timestamp >= Cutoff(time, timeRange)
  IN SelectSeq(events, Recent)

IsToolCallEvent(event) == "toolName" \in DOMAIN event
IsErrorEvent(event) == "errorType" \in DOMAIN event

RECURSIVE SumSeq(_)
SumSeq(s) == IF s = <<>> THEN 0 ELSE Head(s) + SumSeq(Tail(s))

\* The numbers of s with x put before the first larger one.
RECURSIVE InsertSorted(_, _)
InsertSorted(x, s) ==
  IF s = <<>> THEN <<x>>
  ELSE IF x < Head(s) THEN <<x>> \o s
  ELSE <<Head(s)>> \o InsertSorted(x, Tail(s))

\* .sort((a, b) => a - b)
RECURSIVE SortAscending(_)
SortAscending(s) ==
  IF s = <<>> THEN <<>>
  ELSE InsertSorted(s[Len(s)], SortAscending(SubSeq(s, 1, Len(s) - 1)))

\* events.filter((e) => e.duration !== undefined).map((e) => e.duration)
RECURSIVE DurationsOf(_)
DurationsOf(events) ==
  IF events = <<>> THEN <<>>
  ELSE (IF Head(events).duration # NoDuration THEN <<Head(events).duration>> ELSE <<>>)
         \o DurationsOf(Tail(events))

\* The nearest-rank percentile: index ceil(durations.length * p) - 1.
PercentileNearestRank(durations, percent) ==
  LET index == ((Len(durations) * percent + 99) \div 100) - 1 IN
  IF index + 1 \in DOMAIN durations THEN durations[index + 1] ELSE 0

\* durations[Math.floor(durations.length * p)] || 0, p given in percent.
Percentile(durations, percent) ==
  LET index == (Len(durations) * percent) \div 100 IN
  IF index + 1 \in DOMAIN durations THEN durations[index + 1] ELSE 0

\* The keys of toolCounts in insertion order.
RECURSIVE ToolNames(_)
ToolNames(events) ==
  IF events = <<>> THEN <<>>
  ELSE LET rest == ToolNames(SubSeq(events, 1, Len(events) - 1))
           name == events[Len(events)].toolName
       IN IF \E i \in DOMAIN rest : rest[i] = name THEN rest ELSE Append(rest, name)

\* One entry of top_tools before sorting.
ToolEntry(events, name) ==
  LET OfTool(event) == event.toolName = name
      calls == SelectSeq(events, OfTool)
      \* if (event.duration) ...: a duration of 0 adds nothing either way
      totalDuration == SumSeq(DurationsOf(calls))
  IN [name |-> name, calls |-> Len(calls),
      avg_duration_ms |-> IF Len(calls) > 0 THEN Rat(totalDuration, Len(calls))
                          ELSE Rat(0, 1)]

\* The sorted entries with e, which came before them all, put in: before the
\* first entry that has no more calls (the sort is stable).
RECURSIVE InsertByCalls(_, _)
InsertByCalls(e, entries) ==
  IF entries = <<>> THEN <<e>>
  ELSE IF Head(entries).calls <= e.calls THEN <<e>> \o entries
  ELSE <<Head(entries)>> \o InsertByCalls(e, Tail(entries))

\* .sort((a, b) => b.calls - a.calls)
RECURSIVE SortByCalls(_)
SortByCalls(entries) ==
  IF entries = <<>> THEN <<>>
  ELSE InsertByCalls(Head(entries), SortByCalls(Tail(entries)))

\* The first ten entries in the order of toolCounts, not sorted.
TopToolsUnsorted(events) ==
  LET names == ToolNames(events)
      entries == [i \in DOMAIN names |-> ToolEntry(events, names[i])]
  IN SubSeq(entries, 1, IF Len(entries) < 10 THEN Len(entries) ELSE 10)

\* Object.entries(toolCounts).map(..).sort(..).slice(0, 10)
TopTools(events) ==
  LET names == ToolNames(events)
      sorted == SortByCalls([i \in DOMAIN names |-> ToolEntry(events, names[i])])
  IN SubSeq(sorted, 1, IF Len(sorted) < 10 THEN Len(sorted) ELSE 10)

\* getServerMetrics with a serverId, on the events loadEvents() returned.
GetServerMetrics(events, serverId, timeRange, time) ==
  LET Matches(event) == event.serverId = serverId /\ IsToolCallEvent(event)
      filtered == SelectSeq(FilterByTimeRange(events, timeRange, time), Matches)
      Succeeded(event) == event.success
      totalCalls == Len(filtered)
      successfulCalls == Len(SelectSeq(filtered, Succeeded))
      successRate == IF totalCalls > 0 THEN Rat(successfulCalls, totalCalls)
                     ELSE Rat(0, 1)
      durations == SortAscending(DurationsOf(filtered))
      avgDuration == IF Len(durations) > 0 THEN Rat(SumSeq(durations), Len(durations))
                     ELSE Rat(0, 1)
  IN [total_calls |-> totalCalls,
      success_rate |-> successRate,
      avg_duration_ms |-> avgDuration,
      p50_duration_ms |-> Percentile(durations, 50),
      p95_duration_ms |-> Percentile(durations, 95),
      p99_duration_ms |-> Percentile(durations, 99),
      error_rate |-> Rat(successRate.den - successRate.num, successRate.den),
      top_tools |-> TopTools(filtered)]

(***************************************************************************)
(* JSON.stringify and JSON.parse on event values                           *)
(***************************************************************************)
\* JavaScript values: a number, a string, an object (its properties), an
\* array, and the values JSON has no text for.
Num(n) == [num |-> n]
Str(s) == [str |-> s]
Obj(properties) == [obj |-> properties]
Arr(elements) == [arr |-> elements]
Undefined == [js |-> "undefined"]
NaN == [js |-> "NaN"]

\* The value JSON.parse reads back from the text JSON.stringify writes for
\* `value`: a property whose value is undefined is left out, undefined in an
\* array and NaN become null.
RECURSIVE JsonValue(_)
JsonValue(value) ==
  IF "obj" \in DOMAIN value
  THEN Obj([key \in {k \in DOMAIN value.obj : value.obj[k] # Undefined} |->
              JsonValue(value.obj[key])])
  ELSE IF "arr" \in DOMAIN value
  THEN Arr([i \in DOMAIN value.arr |->
              IF value.arr[i] = Undefined THEN Null ELSE JsonValue(value.arr[i])])
  ELSE IF value \in {NaN, Undefined} THEN Null
  ELSE value

\* The same for a stringify that writes no nested value.
JsonOfEventDropParameters(event) == [event EXCEPT !.parameters = Obj(<<>>)]
\* The object JSON.parse reads back from JSON.stringify(event).
JsonOfEvent(event) == [event EXCEPT !.parameters = JsonValue(@)]

\* events.map((event) => JSON.stringify(event)).join('\n') + '\n': one
\* newline-terminated line per event, in the order of the batch.
RECURSIVE NdjsonReversed(_)
NdjsonReversed(events) ==
  IF events = <<>> THEN <<>>
  ELSE Append(NdjsonReversed(Tail(events)), EventLine(JsonOfEvent(Head(events))))
Ndjson(events) ==
  IF events = <<>> THEN <<EmptyLine>>
  ELSE [i \in DOMAIN events |-> EventLine(JsonOfEvent(events[i]))]

(***************************************************************************)
(* FileReporter                                                            *)
(***************************************************************************)
\* The parameters of the tool calls the sink is given.
ComplexParameters ==
  Obj([nested |-> Obj([deep |-> Obj([value |-> Str("test"),
                                     array |-> Arr(<<Num(1), Num(2), Num(3)>>)])]),
       special |-> Str("chars")])
OptionalParameters == Obj([query |-> Str("q"), cursor |-> Undefined])
NumericParameters == Obj([ratio |-> NaN, samples |-> Arr(<<Num(1), Undefined>>)])

SinkEvent(n, parameters) ==
  [id |-> n, timestamp |-> StartTime, serverId |-> "srv_1", toolName |-> "tool_a",
   parameters |-> parameters, duration |-> 100, success |-> TRUE]

SinkEvents ==
  {SinkEvent(1, ComplexParameters), SinkEvent(2, OptionalParameters),
   SinkEvent(3, NumericParameters)}

\* The batches send() is called with.
SinkBatches ==
  UNION {[1 .. n -> SinkEvents] : n \in 0 .. MaxBatchSize}

SendIds == {"s1"}

IdleSend ==
  [pc |-> "idle", batch |-> <<>>, mkdir |-> "none", append |-> "none",
   appends |-> 0, outcome |-> "none"]

\* if (events.length === 0) return;
IsEmptyBatchNever(events) == FALSE
IsEmptyBatch(events) == Len(events) = 0

\* How mkdir(dir, { recursive: true }) can end.
MkdirOutcomes ==
  CASE dirState = "missing" -> {"ok", "EACCES"}
    [] dirState = "dir" -> {"ok"}
    [] dirState = "file" -> {"EEXIST"}

\* How appendFile(filePath, ndjson) can end; the volume holds MaxLines lines.
AppendOutcomes(lines) ==
  CASE dirState = "missing" -> {"ENOENT"}
    [] dirState = "file" -> {"ENOTDIR"}
    [] dirState = "dir" ->
         IF Len(fileLines) + Len(lines) <= MaxLines
         THEN {"ok", "EACCES"} ELSE {"ENOSPC"}

\* ensureDirectoryExists: the errors its catch block lets through.
MkdirRethrows(code) == code \notin {"ok", "EEXIST"}

\* Where send() goes after appendFile rejected: to its catch block, which
\* rethrows.
AfterAppendFailureRetry(send) == [send EXCEPT !.pc = "append"]
AfterAppendFailure(send) == [send EXCEPT !.pc = "done", !.outcome = send.append]

InitSink ==
  /\ dirState = "missing"
  /\ fileCreated = FALSE
  /\ sends = [k \in SendIds |-> IdleSend]
  /\ written = <<>>

\* send(events) up to its first await, or to its return for an empty batch.
SinkSend(k, events) ==
  /\ sends[k].pc = "idle"
  /\ sends' = [sends EXCEPT ![k] =
       IF IsEmptyBatch(events)
       THEN [IdleSend EXCEPT !.pc = "done", !.outcome = "ok"]
       ELSE [IdleSend EXCEPT !.batch = events,
                             !.pc = IF fileCreated THEN "append" ELSE "mkdir"]]
  /\ UNCHANGED <<dirState, fileCreated, written>>
  /\ UNCHANGED <<collectorVars, loaderVars, view>>

\* mkdir settles: ensureDirectoryExists returns and fileCreated is set, or
\* the error leaves send() through its catch block.
SinkMkdir(k) ==
  /\ sends[k].pc = "mkdir"
  /\ \E code \in MkdirOutcomes :
       /\ dirState' = IF code = "ok" THEN "dir" ELSE dirState
       /\ fileCreated' = (fileCreated \/ ~MkdirRethrows(code))
       /\ sends' = [sends EXCEPT ![k] =
            IF MkdirRethrows(code)
            THEN [@ EXCEPT !.mkdir = code, !.pc = "done", !.outcome = code]
            ELSE [@ EXCEPT !.mkdir = code, !.pc = "append"]]
  /\ UNCHANGED written
  /\ UNCHANGED <<collectorVars, loaderVars, view>>

\* appendFile settles.
SinkAppend(k) ==
  LET send == sends[k]
      ndjson == Ndjson(send.batch)
  IN
  /\ send.pc = "append"
  /\ \E code \in AppendOutcomes(ndjson) :
       LET tried == [send EXCEPT !.append = code, !.appends = @ + 1] IN
       IF code = "ok"
       THEN /\ fileLines' = fileLines \o ndjson
            /\ fileExists' = TRUE
            /\ fileMtime' = now
            /\ written' = written \o send.batch
            /\ sends' = [sends EXCEPT ![k] = [tried EXCEPT !.pc = "done", !.outcome = "ok"]]
       ELSE /\ UNCHANGED <<fileVars, written>>
            /\ sends' = [sends EXCEPT ![k] = AfterAppendFailure(tried)]
  /\ UNCHANGED <<dirState, fileCreated>>
  /\ UNCHANGED <<collectorVars, now, cacheVars, loads, view>>

\* The caller has taken the outcome of send().
SinkReturn(k) ==
  /\ sends[k].pc = "done"
  /\ sends' = [sends EXCEPT ![k] = IdleSend]
  /\ UNCHANGED <<dirState, fileCreated, written>>
  /\ UNCHANGED <<collectorVars, loaderVars, view>>

(***************************************************************************)
(* Observatory with a FileReporter as its reporter                         *)
(***************************************************************************)
\* `await this.reporter.send(events)` in flush(): when this step started a
\* send, FileReporter.send runs up to its first await in the same step.  The
\* model follows as many sends at once as `sends` has entries.
ReporterSend ==
  IF inflight' = inflight THEN sends' = sends
  ELSE /\ \E k \in DOMAIN sends : sends[k].pc = "idle"
       /\ LET d == CHOOSE d \in inflight' \ inflight : TRUE
              k == CHOOSE k \in DOMAIN sends : sends[k].pc = "idle"
          IN sends' = [sends EXCEPT ![k] =
               [IdleSend EXCEPT
                  !.batch = [i \in DOMAIN d.events |->
                               SinkEvent(d.events[i], OptionalParameters)],
                  !.pc = IF fileCreated THEN "append" ELSE "mkdir"]]

\* trackError, with the send of a full batch started.
TrackErrorToFile ==
  /\ nextId < MaxEvents
  /\ AddEvent(nextId + 1)
  /\ nextId' = nextId + 1
  /\ lastCall' = [op |-> "trackError", enqueued |-> TRUE]
  /\ ReporterSend
  /\ UNCHANGED <<dirState, fileCreated, written>>
  /\ UNCHANGED <<loaderVars, view>>
  /\ UNCHANGED <<sampling, batchSize, delivered, failures, lastFlush, unhandled,
                 pcShutdown, shutdownEvents, shutdownSend>>

\* The setTimeout callback, with the send of the queue started.
TimerFireToFile ==
  /\ \E t \in timeouts.live :
       Flush("timer", eventQueue, IF t = timeouts.handle THEN "fired" ELSE batchTimer,
             timeouts.live \ {t})
  /\ ReporterSend
  /\ UNCHANGED <<dirState, fileCreated, written>>
  /\ UNCHANGED <<loaderVars, view>>
  /\ UNCHANGED <<sampling, batchSize, delivered, nextId, lastCall, failures, lastFlush,
                 unhandled, pcShutdown, shutdownEvents, shutdownSend>>

\* FileReporter.send settles and flush() continues after its await: to its
\* end, or into its catch block.
SendSettles(k) ==
  /\ sends[k].pc = "done"
  /\ \E d \in inflight :
       /\ d.events = [i \in DOMAIN sends[k].batch |-> sends[k].batch[i].id]
       /\ inflight' = inflight \ {d}
       /\ IF sends[k].outcome = "ok"
          THEN /\ delivered' = delivered \o d.events
               /\ UNCHANGED <<eventQueue, failures>>
               /\ Settle(d.origin, "ok")
          ELSE /\ failures < MaxFailures
               /\ eventQueue' = Requeue(d.events, eventQueue)
               /\ failures' = failures + 1
               /\ UNCHANGED delivered
               /\ Settle(d.origin, "error")
  /\ sends' = [sends EXCEPT ![k] = IdleSend]
  /\ UNCHANGED <<dirState, fileCreated, written>>
  /\ UNCHANGED <<loaderVars, view>>
  /\ UNCHANGED <<sampling, batchSize, batchTimer, timeouts, nextId, lastCall,
                 pcShutdown, shutdownEvents, shutdownSend>>

\* loadEvents() of the data source, from its stat to its return, with the file
\* system answering at once: what it returns and from where.
LoadNow ==
  IF ~fileExists THEN [source |-> "enoent", events |-> <<>>]
  ELSE IF CacheIsValid(eventsCache, now - lastCacheTime,
                       fileMtime # lastFileModificationTime)
  THEN [source |-> "cache", events |-> eventsCache]
  ELSE [source |-> "reload", events |-> ParseContent(fileLines)]

\* The same for a query that reverses, in place, the array loadEvents()
\* returned.
CacheAfterReversing(load) ==
  LET Reversed(events) == [i \in DOMAIN events |-> events[Len(events) + 1 - i]] IN
  IF load.source = "reload"
  THEN /\ eventsCache' = Reversed(load.events)
       /\ lastCacheTime' = now
       /\ lastFileModificationTime' = fileMtime
  ELSE /\ eventsCache' = IF load.source = "cache" THEN Reversed(eventsCache)
                         ELSE eventsCache
       /\ UNCHANGED <<lastCacheTime, lastFileModificationTime>>

\* What that call leaves in the cache.
CacheAfter(load) ==
  IF load.source = "reload"
  THEN /\ eventsCache' = load.events
       /\ lastCacheTime' = now
       /\ lastFileModificationTime' = fileMtime
  ELSE UNCHANGED cacheVars

\* The data source loads the file the sink writes.
LoadEventsCall ==
  /\ CacheAfter(LoadNow)
  /\ UNCHANGED <<fileVars, now, loads>>
  /\ UNCHANGED <<collectorVars, sinkVars, view>>

NextSink ==
  \/ \E k \in SendIds, events \in SinkBatches : SinkSend(k, events)
  \/ \E k \in SendIds : SinkMkdir(k)
  \/ \E k \in SendIds : SinkAppend(k)
  \/ \E k \in SendIds : SinkReturn(k)
  \/ LoadEventsCall

NoView == [op |-> "none"]

(***************************************************************************)
(* FileDataSource: the views over all servers, tool statistics, costs      *)
(***************************************************************************)
\* The serverId of a query that names no server: `!params.serverId` holds.
NoServerId == ""

\* events.map((e) => e.serverId) without the Set.
ServerIdsWithRepeats(events) == [i \in DOMAIN events |-> events[i].serverId]
\* Array.from(new Set(events.map((e) => e.serverId))): first occurrences, in
\* order.
RECURSIVE ServerIdsOf(_)
ServerIdsOf(events) ==
  IF events = <<>> THEN <<>>
  ELSE LET rest == ServerIdsOf(SubSeq(events, 1, Len(events) - 1))
           serverId == events[Len(events)].serverId
       IN IF \E i \in DOMAIN rest : rest[i] = serverId THEN rest
          ELSE Append(rest, serverId)

\* getAllServersMetrics: one entry of `servers`.
ServerMetricsEntry(toolCallEvents, serverId, timeRange) ==
  LET OfServer(event) == event.serverId = serverId
      serverEvents == SelectSeq(toolCallEvents, OfServer)
      Succeeded(event) == event.success
      totalCalls == Len(serverEvents)
      successfulCalls == Len(SelectSeq(serverEvents, Succeeded))
      successRate == IF totalCalls > 0 THEN Rat(successfulCalls, totalCalls)
                     ELSE Rat(0, 1)
      durations == SortAscending(DurationsOf(serverEvents))
      avgDuration == IF Len(durations) > 0 THEN Rat(SumSeq(durations), Len(durations))
                     ELSE Rat(0, 1)
  IN [server_id |-> serverId,
      time_range |-> timeRange,
      metrics |->
        [total_calls |-> totalCalls,
         success_rate |-> successRate,
         avg_duration_ms |-> avgDuration,
         p50_duration_ms |-> Percentile(durations, 50),
         p95_duration_ms |-> Percentile(durations, 95),
         p99_duration_ms |-> Percentile(durations, 99),
         error_rate |-> Rat(successRate.den - successRate.num, successRate.den),
         top_tools |-> TopTools(serverEvents)]]

GetAllServersMetrics(events, timeRange, time) ==
  LET filteredEvents == FilterByTimeRange(events, timeRange, time)
      toolCallEvents == SelectSeq(filteredEvents, IsToolCallEvent)
      serverIds == ServerIdsOf(toolCallEvents)
      Succeeded(event) == event.success
      totalCalls == Len(toolCallEvents)
      successfulCalls == Len(SelectSeq(toolCallEvents, Succeeded))
      successRate == IF totalCalls > 0 THEN Rat(successfulCalls, totalCalls)
                     ELSE Rat(0, 1)
      allDurations == SortAscending(DurationsOf(toolCallEvents))
      avgDuration == IF Len(allDurations) > 0
                     THEN Rat(SumSeq(allDurations), Len(allDurations))
                     ELSE Rat(0, 1)
  IN [server_id |-> "all",
      time_range |-> timeRange,
      servers |-> [i \in DOMAIN serverIds |->
                     ServerMetricsEntry(toolCallEvents, serverIds[i], timeRange)],
      aggregated_metrics |->
        [total_calls |-> totalCalls,
         success_rate |-> successRate,
         avg_duration_ms |-> avgDuration,
         p50_duration_ms |-> Percentile(allDurations, 50),
         p95_duration_ms |-> Percentile(allDurations, 95),
         p99_duration_ms |-> Percentile(allDurations, 99),
         error_rate |-> Rat(successRate.den - successRate.num, successRate.den),
         total_servers |-> Len(serverIds)]]

\* getServerMetrics on the events loadEvents() returned; timeRange is given.
ServerMetricsView(events, serverId, timeRange, time) ==
  IF serverId = NoServerId THEN GetAllServersMetrics(events, timeRange, time)
  ELSE [server_id |-> serverId,
        time_range |-> timeRange,
        metrics |-> GetServerMetrics(events, serverId, timeRange, time)]

\* getAllServersToolStats: one entry of `servers`.
ServerToolStatsEntry(toolCallEvents, serverId) ==
  LET OfServer(event) == event.serverId = serverId
      serverEvents == SelectSeq(toolCallEvents, OfServer)
      Succeeded(event) == event.success
      totalCalls == Len(serverEvents)
      successCount == Len(SelectSeq(serverEvents, Succeeded))
      durations == SortAscending(DurationsOf(serverEvents))
      avgDuration == IF Len(durations) > 0 THEN Rat(SumSeq(durations), Len(durations))
                     ELSE Rat(0, 1)
  IN [server_id |-> serverId,
      stats |->
        [total_calls |-> totalCalls,
         success_count |-> successCount,
         error_count |-> totalCalls - successCount,
         avg_duration_ms |-> avgDuration,
         p50_duration_ms |-> Percentile(durations, 50),
         p95_duration_ms |-> Percentile(durations, 95),
         p99_duration_ms |-> Percentile(durations, 99)]]

GetAllServersToolStats(events, toolName, timeRange, time) ==
  LET filteredEvents == FilterByTimeRange(events, timeRange, time)
      OfTool(event) == IsToolCallEvent(event) /\ event.toolName = toolName
      toolCallEvents == SelectSeq(filteredEvents, OfTool)
      serverIds == ServerIdsOf(toolCallEvents)
      Succeeded(event) == event.success
      totalCalls == Len(toolCallEvents)
      successCount == Len(SelectSeq(toolCallEvents, Succeeded))
      allDurations == SortAscending(DurationsOf(toolCallEvents))
      avgDuration == IF Len(allDurations) > 0
                     THEN Rat(SumSeq(allDurations), Len(allDurations))
                     ELSE Rat(0, 1)
  IN [server_id |-> "all",
      tool_name |-> toolName,
      time_range |-> timeRange,
      servers |-> [i \in DOMAIN serverIds |->
                     ServerToolStatsEntry(toolCallEvents, serverIds[i])],
      aggregated_stats |->
        [total_calls |-> totalCalls,
         success_count |-> successCount,
         error_count |-> totalCalls - successCount,
         avg_duration_ms |-> avgDuration,
         p50_duration_ms |-> Percentile(allDurations, 50),
         p95_duration_ms |-> Percentile(allDurations, 95),
         p99_duration_ms |-> Percentile(allDurations, 99),
         total_servers |-> Len(serverIds)]]

\* getToolStats on the events loadEvents() returned.
GetToolStats(events, serverId, toolName, timeRange, time) ==
  IF serverId = NoServerId THEN GetAllServersToolStats(events, toolName, timeRange, time)
  ELSE
  LET Matches(event) == /\ event.serverId = serverId
                        /\ IsToolCallEvent(event)
                        /\ event.toolName = toolName
      filtered == SelectSeq(FilterByTimeRange(events, timeRange, time), Matches)
      Succeeded(event) == event.success
      totalCalls == Len(filtered)
      successCount == Len(SelectSeq(filtered, Succeeded))
      durations == SortAscending(DurationsOf(filtered))
      avgDuration == IF Len(durations) > 0 THEN Rat(SumSeq(durations), Len(durations))
                     ELSE Rat(0, 1)
  IN [server_id |-> serverId,
      tool_name |-> toolName,
      time_range |-> timeRange,
      stats |->
        [total_calls |-> totalCalls,
         success_count |-> successCount,
         error_count |-> totalCalls - successCount,
         avg_duration_ms |-> avgDuration,
         p50_duration_ms |-> Percentile(durations, 50),
         p95_duration_ms |-> Percentile(durations, 95),
         p99_duration_ms |-> Percentile(durations, 99)]]

\* The cost at 0.01 a call.
CostOfCents(totalCalls) == Rat(totalCalls, 100)

\* totalCalls * costPerCall with costPerCall = 0.001.
CostOf(totalCalls) == Rat(totalCalls, 1000)

\* An entry that counts the calls of every server.
ServerCostEntryOfAll(toolCallEvents, serverId) ==
  [server_id |-> serverId,
   estimated_cost_usd |-> CostOf(Len(toolCallEvents)),
   breakdown |-> [tool_calls |-> Len(toolCallEvents), cost_per_call |-> Rat(1, 1000),
                  total_calls |-> Len(toolCallEvents)]]
\* getAllServersCostEstimate: one entry of `servers`.
ServerCostEntry(toolCallEvents, serverId) ==
  LET OfServer(event) == event.serverId = serverId
      totalCalls == Len(SelectSeq(toolCallEvents, OfServer))
  IN [server_id |-> serverId,
      estimated_cost_usd |-> CostOf(totalCalls),
      breakdown |-> [tool_calls |-> totalCalls, cost_per_call |-> Rat(1, 1000),
                     total_calls |-> totalCalls]]

GetAllServersCostEstimate(events, timeRange, time) ==
  LET filteredEvents == FilterByTimeRange(events, timeRange, time)
      toolCallEvents == SelectSeq(filteredEvents, IsToolCallEvent)
      serverIds == ServerIdsOf(toolCallEvents)
      totalCalls == Len(toolCallEvents)
  IN [server_id |-> "all",
      time_range |-> timeRange,
      servers |-> [i \in DOMAIN serverIds |-> ServerCostEntry(toolCallEvents, serverIds[i])],
      total_estimated_cost_usd |-> CostOf(totalCalls),
      total_calls |-> totalCalls]

\* getCostEstimate on the events loadEvents() returned.
GetCostEstimate(events, serverId, timeRange, time) ==
  IF serverId = NoServerId THEN GetAllServersCostEstimate(events, timeRange, time)
  ELSE
  LET Matches(event) == event.serverId = serverId /\ IsToolCallEvent(event)
      totalCalls == Len(SelectSeq(FilterByTimeRange(events, timeRange, time), Matches))
  IN [server_id |-> serverId,
      time_range |-> timeRange,
      estimated_cost_usd |-> CostOf(totalCalls),
      breakdown |-> [tool_calls |-> totalCalls, cost_per_call |-> Rat(1, 1000),
                     total_calls |-> totalCalls]]

(***************************************************************************)
(* FileDataSource: error logs                                              *)
(***************************************************************************)
\* errorType and message are strings, kept as the sequence of their pieces
\* (a piece is a run of characters without a colon, or the colon).
\* `${event.errorType}:${event.message}`
ErrorKey(event) == event.errorType \o <<":">> \o event.message

\* `${event.serverId}:${event.errorType}:${event.message}`
ServerErrorKey(event) == <<event.serverId, ":">> \o event.errorType \o <<":">> \o event.message

\* new Date(timestamp).toISOString()
ToISOString(timestamp) == [iso |-> timestamp]

\* (latest.metadata?.toolName as string) || 'unknown'
ToolNameOf(event) == IF event.metadata.toolName = "" THEN "unknown"
                     ELSE event.metadata.toolName

\* The first occurrences of the elements of a sequence, in order: the keys of
\* a Map in insertion order.
RECURSIVE Distinct(_)
Distinct(s) ==
  IF s = <<>> THEN <<>>
  ELSE LET rest == Distinct(SubSeq(s, 1, Len(s) - 1)) IN
       IF \E i \in DOMAIN rest : rest[i] = s[Len(s)] THEN rest
       ELSE Append(rest, s[Len(s)])

\* const latest = events[events.length - 1]
Latest(group) == group[Len(group)]

\* The entry of one group.
ErrorEntry(group) ==
  LET latest == Latest(group) IN
  [id |-> latest.id,
   timestamp |-> ToISOString(latest.timestamp),
   tool_name |-> ToolNameOf(latest),
   error_type |-> latest.errorType,
   message |-> latest.message,
   stack |-> latest.stack,
   frequency |-> Len(group)]

\* The sorted entries with e, which came before them all, put in (the sort is
\* stable).
RECURSIVE InsertByFrequency(_, _)
InsertByFrequency(e, entries) ==
  IF entries = <<>> THEN <<e>>
  ELSE IF Head(entries).frequency <= e.frequency THEN <<e>> \o entries
  ELSE <<Head(entries)>> \o InsertByFrequency(e, Tail(entries))

\* .sort((a, b) => b.frequency - a.frequency)
RECURSIVE SortByFrequency(_)
SortByFrequency(entries) ==
  IF entries = <<>> THEN <<>>
  ELSE InsertByFrequency(Head(entries), SortByFrequency(Tail(entries)))

\* The limit of a query that gives none: params.limit is undefined.
NoLimit == -1

\* .slice(0, limit || 50): undefined and 0 are both falsy.
SliceLimit(entries, limit) ==
  LET n == IF limit = NoLimit \/ limit = 0 THEN 50 ELSE limit IN
  SubSeq(entries, 1, IF Len(entries) < n THEN Len(entries) ELSE n)

\* The entries of the groups of errorEvents, before sort and slice; the keys
\* of errorGroups are in insertion order.
GroupEntries(errorEvents) ==
  LET keys == Distinct([i \in DOMAIN errorEvents |-> ErrorKey(errorEvents[i])]) IN
  [i \in DOMAIN keys |->
     LET InGroup(event) == ErrorKey(event) = keys[i] IN
     ErrorEntry(SelectSeq(errorEvents, InGroup))]

\* getAllServersErrorLogs
GetAllServersErrorLogs(events, limit) ==
  LET errorEvents == SelectSeq(events, IsErrorEvent)
      serverIds == ServerIdsOf(errorEvents)
      keys == Distinct([i \in DOMAIN errorEvents |-> ServerErrorKey(errorEvents[i])])
      groups == [i \in DOMAIN keys |->
                   LET InGroup(event) == ServerErrorKey(event) = keys[i] IN
                   SelectSeq(errorEvents, InGroup)]
      tagged == [i \in DOMAIN keys |->
                   [serverId |-> Latest(groups[i]).serverId, error |-> ErrorEntry(groups[i]),
                    frequency |-> Len(groups[i])]]
      allErrors == SliceLimit(SortByFrequency(tagged), limit)
  IN [server_id |-> "all",
      servers |-> [i \in DOMAIN serverIds |->
         LET OfServer(e) == e.serverId = serverIds[i]
             serverErrors == SelectSeq(allErrors, OfServer)
         IN [server_id |-> serverIds[i],
             errors |-> [j \in DOMAIN serverErrors |-> serverErrors[j].error],
             total_count |-> Len(SelectSeq(errorEvents, OfServer))]],
      total_count |-> Len(errorEvents),
      time_range |-> "all"]

\* getErrorLogs on the events loadEvents() returned.
GetErrorLogs(events, serverId, limit) ==
  IF serverId = NoServerId THEN GetAllServersErrorLogs(events, limit)
  ELSE
  LET Matches(event) == event.serverId = serverId /\ IsErrorEvent(event)
      errorEvents == SelectSeq(events, Matches)
  IN [server_id |-> serverId,
      errors |-> SliceLimit(SortByFrequency(GroupEntries(errorEvents)), limit),
      total_count |-> Len(errorEvents),
      time_range |-> "all"]

TimeRanges == {"5m", "1h", "24h", "7d", "30d"}

\* A query without timeRange.
NoTimeRange == ""

\* params.timeRange || '1h' (getCostEstimate: '24h')
TimeRangeOr(timeRange, default) == IF timeRange = NoTimeRange THEN default ELSE timeRange

(***************************************************************************)
(* FileDataSource.analyzePerformance                                       *)
(***************************************************************************)
\* n.toFixed(digits) of a quotient n >= 0, as the number of units 1 / scale:
\* the nearest one, the upper one at a tie.
ToFixed(n, scale) == (2 * scale * n.num + n.den) \div (2 * n.den)

\* metrics.error_rate > tenths / 10 in the doubles of the code.  error_rate is
\* 1 - successRate rounded, and the rounding decides at one rate only: 1 - 0.7
\* is 0.30000000000000004, which is above 0.3 (1 - 0.9 is
\* 0.09999999999999998, which is not above 0.1).
ErrorRateAbove(error_rate, tenths) ==
  \/ 10 * error_rate.num > tenths * error_rate.den
  \/ tenths = 3 /\ 10 * error_rate.num = 3 * error_rate.den

\* Math.max(0, 1 - metrics.error_rate)
HealthScore(error_rate) ==
  IF error_rate.num > error_rate.den THEN Rat(0, 1)
  ELSE Rat(error_rate.den - error_rate.num, error_rate.den)

\* The insights of one server's metrics: the slow tools in the order of
\* top_tools, then the error spike.  `tag` is the "[server_id] " in front of
\* the messages of the analysis of all servers, "" in that of one server.
InsightsOf(tag, metrics) ==
  LET Slow(tool) == tool.avg_duration_ms.num > 1000 * tool.avg_duration_ms.den
      slowTools == SelectSeq(metrics.top_tools, Slow)
      slow == [i \in DOMAIN slowTools |->
                 [type |-> "slow_tool",
                  severity |-> IF slowTools[i].avg_duration_ms.num
                                    > 5000 * slowTools[i].avg_duration_ms.den
                               THEN "high" ELSE "medium",
                  tool_name |-> slowTools[i].name,
                  message |-> [tag |-> tag, tool |-> slowTools[i].name,
                               ms |-> ToFixed(slowTools[i].avg_duration_ms, 1)]]]
      spike == [type |-> "error_spike",
                severity |-> IF ErrorRateAbove(metrics.error_rate, 3) THEN "critical"
                             ELSE "high",
                message |-> [tag |-> tag, permille |-> ToFixed(metrics.error_rate, 1000)]]
  IN IF ErrorRateAbove(metrics.error_rate, 1) THEN Append(slow, spike) ELSE slow

\* A sum that keeps the health score of the last server only.
SumOfHealthScoresLast(servers) ==
  IF servers = <<>> THEN Rat(0, 1) ELSE servers[Len(servers)].health_score

\* servers.reduce((sum, s) => sum + s.health_score, 0)
RECURSIVE SumOfHealthScores(_)
SumOfHealthScores(servers) ==
  IF servers = <<>> THEN Rat(0, 1)
  ELSE LET sum == SumOfHealthScores(SubSeq(servers, 1, Len(servers) - 1))
           score == servers[Len(servers)].health_score
       IN Rat(sum.num * score.den + score.num * sum.den, sum.den * score.den)

\* analyzeAllServersPerformance; a metrics object without `servers` makes
\* `allServersMetrics.servers.map` throw.
AnalyzeAllServersPerformance(metrics, timeRange) ==
  IF "servers" \notin DOMAIN metrics THEN [threw |-> "TypeError"]
  ELSE
  LET servers == [i \in DOMAIN metrics.servers |->
                    [server_id |-> metrics.servers[i].server_id,
                     insights |-> InsightsOf(metrics.servers[i].server_id,
                                             metrics.servers[i].metrics),
                     health_score |-> HealthScore(metrics.servers[i].metrics.error_rate),
                     trend |-> "stable"]]
      Critical(insight) == insight.severity \in {"high", "critical"}
      \* criticalInsights.push in the order of the servers and their insights
      RECURSIVE CriticalInsights(_)
      CriticalInsights(n) ==
        IF n = 0 THEN <<>>
        ELSE CriticalInsights(n - 1) \o SelectSeq(servers[n].insights, Critical)
      sum == SumOfHealthScores(servers)
  IN [server_id |-> "all",
      time_range |-> timeRange,
      servers |-> servers,
      overall_health_score |-> IF Len(servers) > 0 THEN Rat(sum.num, sum.den * Len(servers))
                               ELSE Rat(1, 1),
      overall_trend |-> "stable",
      critical_insights |-> CriticalInsights(Len(servers))]

\* analyzePerformance on the events loadEvents() returned; timeRange is as the
\* caller gave it: the metrics take '1h' for none, the label takes '24h'.
AnalyzePerformance(events, serverId, timeRange, time) ==
  LET metrics == ServerMetricsView(events, serverId, TimeRangeOr(timeRange, "1h"), time)
      label == TimeRangeOr(timeRange, "24h")
  IN IF metrics.server_id = "all" THEN AnalyzeAllServersPerformance(metrics, label)
     ELSE [server_id |-> metrics.server_id,
           time_range |-> label,
           insights |-> InsightsOf("", metrics.metrics),
           health_score |-> HealthScore(metrics.metrics.error_rate),
           trend |-> "stable"]

(***************************************************************************)
(* Queries against a log                                                   *)
(***************************************************************************)
\* Date.now() when the queries run.
QueryTime == HalfRangeMs("30d")

ToolCall(id, serverId, toolName, success, duration, timestamp) ==
  [id |-> id, timestamp |-> timestamp, serverId |-> serverId, toolName |-> toolName,
   duration |-> duration, success |-> success]

ErrorRecord(id, serverId, errorType, message, timestamp) ==
  [id |-> id, timestamp |-> timestamp, serverId |-> serverId, errorType |-> errorType,
   message |-> message, stack |-> id,
   metadata |-> [toolName |-> IF serverId = "srv_1" THEN "tool_a" ELSE ""]]

\* The events of a log of tool calls: two servers, inside the window
\* `timeRange`, exactly at its cutoff and 1 ms older; one error event.
CallEvents(timeRange) ==
  LET cutoff == Cutoff(QueryTime, timeRange) IN
  {ToolCall(1, "srv_1", "tool_a", TRUE, 100, QueryTime),
   ToolCall(2, "srv_1", "tool_b", FALSE, 200, cutoff),
   ToolCall(3, "srv_1", "tool_a", TRUE, 300, cutoff - 1),
   ToolCall(4, "srv_2", "tool_a", TRUE, 300, cutoff),
   ToolCall(5, "srv_2", "tool_a", FALSE, NoDuration, QueryTime),
   ErrorRecord(6, "srv_1", <<"E">>, <<"m">>, QueryTime)}

\* The error events of a log of errors, but for id and stack: two servers,
\* three pairs of errorType and message, two timestamps.
ErrorShapes ==
  {ErrorRecord(0, serverId, pair[1], pair[2], timestamp) :
     serverId \in {"srv_1", "srv_2"},
     pair \in {<<<<"E">>, <<"x", ":", "y">>>>, <<<<"E", ":", "x">>, <<"y">>>>,
               <<<<"E">>, <<"y">>>>},
     timestamp \in {QueryTime - 1000, QueryTime}}

\* The logs of at most MaxLines lines over a set of events.
LogsOf(events) == UNION {[1 .. n -> {EventLine(e) : e \in events}] : n \in 0 .. MaxLines}

\* A log of errors: the i-th occurrence has id i and stack i.
ErrorLog(shapes) ==
  [i \in DOMAIN shapes |-> EventLine([shapes[i] EXCEPT !.id = i, !.stack = i])]

QueryServerIds == {"srv_1", "srv_2", NoServerId}
QueryTimeRanges == TimeRanges \cup {NoTimeRange}
QueryToolNames == {"tool_a", "tool_b"}

\* A data source in front of a log that is there.
InitQuery ==
  /\ InitCollector /\ sampling = RandScale /\ batchSize = MaxBatchSize
  /\ InitSink
  /\ fileExists = TRUE
  /\ fileMtime = StartTime
  /\ now = QueryTime
  /\ eventsCache = NoCache
  /\ lastCacheTime = 0
  /\ lastFileModificationTime = 0
  /\ loads = [k \in LoadIds |-> IdleLoad]
  /\ view = NoView

\* A log of twelve calls of srv_1 to eleven tools, one more than top_tools
\* keeps: the tool of the last two lines is the only one called twice.
ManyToolsLog ==
  LET tools == <<"t01", "t02", "t03", "t04", "t05", "t06", "t07", "t08", "t09", "t10",
                 "t11", "t11">>
  IN [i \in DOMAIN tools |->
        EventLine(ToolCall(i, "srv_1", tools[i], TRUE, 100 * i, QueryTime))]

InitMetrics ==
  /\ InitQuery
  /\ \/ \E timeRange \in TimeRanges : fileLines \in LogsOf(CallEvents(timeRange))
     \/ fileLines = ManyToolsLog

InitErrors ==
  /\ InitQuery
  /\ \E shapes \in UNION {[1 .. n -> ErrorShapes] : n \in 0 .. MaxLines} :
       fileLines = ErrorLog(shapes)

\* The events of a log for the analysis: calls of srv_1 with durations at
\* and above the thresholds of a slow tool, a failed call of srv_2, and a call
\* of srv_2 that is 1 ms older than the 1h window.
InsightEvents ==
  {ToolCall(1, "srv_1", "tool_a", TRUE, 1000, QueryTime),
   ToolCall(2, "srv_1", "tool_a", TRUE, 1002, QueryTime),
   ToolCall(3, "srv_1", "tool_b", FALSE, 5000, QueryTime),
   ToolCall(4, "srv_1", "tool_b", TRUE, 5002, QueryTime),
   ToolCall(5, "srv_2", "tool_a", FALSE, 6000, QueryTime),
   ToolCall(6, "srv_2", "tool_a", TRUE, 300, Cutoff(QueryTime, "1h") - 1)}

\* A log of ten calls of srv_1, the first `successes` of them successful.
RateLog(successes) ==
  [i \in 1 .. 10 |->
     EventLine(ToolCall(i, "srv_1", "tool_a", i <= successes, 100, QueryTime))]

InitInsights ==
  /\ InitQuery
  /\ fileLines \in LogsOf(InsightEvents) \cup {RateLog(successes) : successes \in 0 .. 10}

\* A query is loadEvents() and then the view over the events it returned.
MetricsQuery(serverId, timeRange) ==
  /\ view = NoView
  /\ CacheAfter(LoadNow)
  /\ view' = [op |-> "getServerMetrics", serverId |-> serverId,
              timeRange |-> TimeRangeOr(timeRange, "1h"), events |-> LoadNow.events,
              result |-> ServerMetricsView(LoadNow.events, serverId,
                                           TimeRangeOr(timeRange, "1h"), now)]
  /\ UNCHANGED <<fileVars, now, loads>>
  /\ UNCHANGED <<collectorVars, sinkVars>>

ToolStatsQuery(serverId, toolName, timeRange) ==
  /\ view = NoView
  /\ CacheAfter(LoadNow)
  /\ view' = [op |-> "getToolStats", serverId |-> serverId,
              timeRange |-> TimeRangeOr(timeRange, "1h"), toolName |-> toolName,
              events |-> LoadNow.events,
              result |-> GetToolStats(LoadNow.events, serverId, toolName,
                                      TimeRangeOr(timeRange, "1h"), now)]
  /\ UNCHANGED <<fileVars, now, loads>>
  /\ UNCHANGED <<collectorVars, sinkVars>>

CostQuery(serverId, timeRange) ==
  /\ view = NoView
  /\ CacheAfter(LoadNow)
  /\ view' = [op |-> "getCostEstimate", serverId |-> serverId,
              timeRange |-> TimeRangeOr(timeRange, "24h"), events |-> LoadNow.events,
              result |-> GetCostEstimate(LoadNow.events, serverId,
                                         TimeRangeOr(timeRange, "24h"), now)]
  /\ UNCHANGED <<fileVars, now, loads>>
  /\ UNCHANGED <<collectorVars, sinkVars>>

ErrorLogsQuery(serverId, limit) ==
  /\ view = NoView
  /\ CacheAfter(LoadNow)
  /\ view' = [op |-> "getErrorLogs", serverId |-> serverId, limit |-> limit,
              events |-> LoadNow.events,
              result |-> GetErrorLogs(LoadNow.events, serverId, limit)]
  /\ UNCHANGED <<fileVars, now, loads>>
  /\ UNCHANGED <<collectorVars, sinkVars>>

\* The view keeps timeRange as the caller gave it.
InsightsQuery(serverId, timeRange) ==
  /\ view = NoView
  /\ CacheAfter(LoadNow)
  /\ view' = [op |-> "analyzePerformance", serverId |-> serverId,
              timeRange |-> timeRange, events |-> LoadNow.events,
              result |-> AnalyzePerformance(LoadNow.events, serverId, timeRange, now)]
  /\ UNCHANGED <<fileVars, now, loads>>
  /\ UNCHANGED <<collectorVars, sinkVars>>

\* The caller has taken the answer.
ViewReturn ==
  /\ view # NoView
  /\ view' = NoView
  /\ UNCHANGED <<collectorVars, loaderVars, sinkVars>>

NextMetrics ==
  \/ \E serverId \in QueryServerIds, timeRange \in QueryTimeRanges :
       MetricsQuery(serverId, timeRange)
  \/ \E serverId \in QueryServerIds, toolName \in QueryToolNames,
        timeRange \in QueryTimeRanges : ToolStatsQuery(serverId, toolName, timeRange)
  \/ \E serverId \in QueryServerIds, timeRange \in QueryTimeRanges :
       CostQuery(serverId, timeRange)
  \/ ViewReturn

NextErrors ==
  \/ \E serverId \in QueryServerIds, limit \in {NoLimit, 0, 1, 2} :
       ErrorLogsQuery(serverId, limit)
  \/ ViewReturn

\* The serverId of a query is a server of the log, none, or the text 'all'.
NextInsights ==
  \/ \E serverId \in QueryServerIds \cup {"all"}, timeRange \in {NoTimeRange, "1h", "24h"} :
       InsightsQuery(serverId, timeRange)
  \/ ViewReturn

Init == InitCollector /\ InitLoader /\ InitSink /\ view = NoView

\* The collector, with the data source idle.
SpecCollector == Init /\ [][NextCollector]_vars

\* The data source and the log file, with a collector that records nothing
\* (its defaults: sampling 1, and the largest batch size).
InitIdleCollector == Init /\ sampling = RandScale /\ batchSize = MaxBatchSize

SpecLoader == InitIdleCollector /\ [][NextLoader]_vars

\* The collector with a batch size above those of SpecCollector, so that a
\* second event can be enqueued while the timer runs, and sampling 1, so that
\* every trackToolCall enqueues; the timer callback runs once its timeout is
\* due.
InitLargeBatch ==
  /\ InitObservatory({MaxBatchSize + 1}) /\ sampling = RandScale
  /\ InitLoader /\ InitSink /\ view = NoView

NextBatchTimer ==
  \/ TrackToolCall
  \/ TrackError
  \/ TimerFire
  \/ FlushCall
  \/ \E d \in inflight : SendOk(d)
  \/ \E d \in inflight : SendFail(d)
  \/ ShutdownCall
  \/ ShutdownAfterFlush
  \/ ShutdownResolve

SpecBatchTimer == InitLargeBatch /\ [][NextBatchTimer]_vars /\ WF_vars(TimerFire)

\* The collector writing through a FileReporter, with up to two sends at a
\* time.
InitFileReporter ==
  /\ InitCollector /\ sampling = RandScale
  /\ InitLoader
  /\ dirState = "missing"
  /\ fileCreated = FALSE
  /\ sends = [k \in {"s1", "s2"} |-> IdleSend]
  /\ written = <<>>
  /\ view = NoView

NextFileReporter ==
  \/ TrackErrorToFile
  \/ TimerFireToFile
  \/ \E k \in DOMAIN sends : SinkMkdir(k)
  \/ \E k \in DOMAIN sends : SinkAppend(k)
  \/ \E k \in DOMAIN sends : SendSettles(k)

SpecFileReporter == InitFileReporter /\ [][NextFileReporter]_vars

\* Two loadEvents() calls that overlap, and a writer that appends to the file
\* between their steps; the clock stands still, so the cache never expires.
InitOverlappingLoads ==
  /\ InitCollector /\ sampling = RandScale /\ batchSize = MaxBatchSize
  /\ InitSink
  /\ fileExists = FALSE
  /\ fileLines = <<>>
  /\ fileMtime = 0
  /\ now = StartTime
  /\ eventsCache = NoCache
  /\ lastCacheTime = 0
  /\ lastFileModificationTime = 0
  /\ loads = [k \in {"q1", "q2"} |-> IdleLoad]
  /\ view = NoView

NextOverlappingLoads ==
  \/ WriterAppendStamped
  \/ \E k \in DOMAIN loads : LoadStat(k)
  \/ \E k \in DOMAIN loads : LoadCheck(k)
  \/ \E k \in DOMAIN loads : LoadRead(k)
  \/ \E k \in DOMAIN loads : LoadUpdate(k)
  \/ \E k \in DOMAIN loads : LoadReturn(k)

SpecOverlappingLoads == InitOverlappingLoads /\ [][NextOverlappingLoads]_vars

\* The file sink and a data source reading its file; the directory of the file
\* is missing, there, or not a directory.
InitSinkAnyDir ==
  /\ InitCollector /\ sampling = RandScale /\ batchSize = MaxBatchSize
  /\ InitLoader
  /\ dirState \in {"missing", "dir", "file"}
  /\ fileCreated = FALSE
  /\ sends = [k \in SendIds |-> IdleSend]
  /\ written = <<>>
  /\ view = NoView

SpecSink == InitSinkAnyDir /\ [][NextSink]_vars

\* The views of the data source over a log of tool calls.
SpecMetrics == InitMetrics /\ [][NextMetrics]_vars

\* The error-log view of the data source over a log of errors.
SpecErrors == InitErrors /\ [][NextErrors]_vars

\* The performance analysis of the data source.
SpecInsights == InitInsights /\ [][NextInsights]_vars

(***************************************************************************)
(* Properties of the collector, checked under SpecCollector.               *)
(***************************************************************************)

\* C1: at most one delivery (a reporter.send call that has not settled) is in
\* flight per collector at any time.
C1_AtMostOneDeliveryInFlight == Cardinality(inflight) <= 1

\* C2: when reporter.send rejects for the drained batch B while the live buffer
\* holds L, the catch block leaves the buffer as exactly B followed by L.
C2_FailedBatchPrepended ==
  [][failures' # failures =>
       \E d \in inflight : /\ inflight' = inflight \ {d}
                           /\ eventQueue' = d.events \o eventQueue]_vars

\* A batch was requeued in front of events recorded while it was in flight:
\* addEvent never leaves batchSize events behind an armed timer.
C2_Witness ==
  failures >= 1 /\ batchTimer = "pending" /\ Len(eventQueue) >= batchSize

\* C3: with sampling rate 0 a trackToolCall never enqueues, with sampling rate 1
\* it always enqueues, whatever Math.random() returns in [0,1).
C3_SamplingExtremes ==
  lastCall.op = "trackToolCall" =>
    /\ sampling = 0 => ~lastCall.enqueued
    /\ sampling = RandScale => lastCall.enqueued

\* C4: an enqueue that brings the buffer to batchSize or more starts a delivery
\* of the whole buffer inside the same call and leaves no timer armed.
C4_BatchSizeTriggersDelivery ==
  [][(nextId' # nextId /\ Len(eventQueue) + 1 >= batchSize) =>
       /\ eventQueue' = <<>>
       /\ batchTimer' # "pending"
       /\ [events |-> Append(eventQueue, nextId'), origin |-> "addEvent"]
            \in inflight' \ inflight]_vars

C4_Witness ==
  \E d \in inflight : d.origin = "addEvent" /\ Len(d.events) >= batchSize

\* reporter.shutdown() is called only after that send has settled.
ShutdownWaitsForSend ==
  pcShutdown \in {"reporterShutdown", "done"} =>
    ~\E d \in inflight : d.origin = "shutdown"

\* C5: shutdown() hands the buffer to reporter.send, waits for that send, then
\* calls reporter.shutdown(); when the send succeeded the buffer is empty once
\* shutdown() has resolved, events recorded after the hand-over aside: it then
\* holds no event as old as the ones shutdown() handed over (events are
\* numbered as created).
C5_BufferEmptyAfterShutdown ==
  /\ ShutdownWaitsForSend
  /\ (pcShutdown = "done" /\ shutdownSend = "ok") =>
       \A i \in DOMAIN eventQueue : \A j \in DOMAIN shutdownEvents :
          eventQueue[i] > shutdownEvents[j]

\* C6 as stated: a rejected reporter.send makes flush() complete with a failure
\* for its caller, and never surfaces as an unhandled rejection of a flush()
\* started by trackToolCall, trackError or the timer.
C6_SendFailureReachesCaller ==
  /\ lastFlush.send = "error" => lastFlush.promise = "rejected"
  /\ ~unhandled

\* C6 amended: a rejected reporter.send is caught inside flush(), which still
\* fulfils its promise for every caller (shutdown() goes on to
\* reporter.shutdown()), and nothing surfaces as an unhandled rejection.
C6_SendFailureSwallowed ==
  /\ lastFlush.send = "error" => lastFlush.promise = "fulfilled"
  /\ ~unhandled
  /\ pcShutdown # "failed"

C6_Witness == lastFlush.send = "error" /\ failures >= 1

(***************************************************************************)
(* Properties of the data source, checked under SpecLoader.                *)
(***************************************************************************)
IsEventLine(line) == "event" \in DOMAIN line

\* The events of the event lines of a file content, in line order.
RECURSIVE EventsOfLines(_)
EventsOfLines(content) ==
  IF content = <<>> THEN <<>>
  ELSE (IF IsEventLine(Head(content)) THEN <<Head(content).event>> ELSE <<>>)
         \o EventsOfLines(Tail(content))

\* C7: a load that finds the file's modification time different from the one
\* recorded in the cache re-reads the file and returns what the file then
\* holds, every appended record included, also before the 5 s have passed.
C7_ModifiedFileIsReloaded ==
  \A k \in LoadIds :
    LET l == loads[k] IN
    (l.pc = "done" /\ l.fileHasChanged /\ l.source \notin {"enoent", "error"}) =>
      /\ l.source = "reload"
      /\ \A i \in DOMAIN l.content :
           IsEventLine(l.content[i]) =>
             \E j \in DOMAIN l.result : l.result[j] = l.content[i].event

\* A load found a cache younger than 5 s and a changed modification time, and
\* returned an event read from the file.
C7_Witness ==
  \E k \in LoadIds :
    /\ loads[k].pc = "done" /\ loads[k].fileHasChanged /\ loads[k].fresh
    /\ loads[k].source = "reload" /\ Len(loads[k].result) >= 1

\* C8: with the file there, loadEvents() returns the cached events without
\* reading the file exactly when a cache exists, less than 5000 ms have passed
\* since its capture and the modification time stat() reports equals the
\* recorded one; otherwise it reads the whole file.
C8_CacheServedIffValid ==
  [][\A k \in LoadIds :
       /\ (loads[k].pc = "statted" /\ loads[k].stat = "ok"
             /\ loads'[k].pc # "statted") =>
            IF /\ eventsCache # NoCache
               /\ now - lastCacheTime < CACHE_TTL_MS
               /\ loads[k].mtime = lastFileModificationTime
            THEN /\ loads'[k].pc = "done"
                 /\ loads'[k].result = eventsCache
                 /\ loads'[k].read = "none"
                 /\ UNCHANGED cacheVars
            ELSE loads'[k].pc = "reading"
       /\ (loads[k].pc = "reading" /\ loads[k].read = "none"
             /\ loads'[k].read = "ok") => loads'[k].content = fileLines]_vars

C8_Witness ==
  \E k \in LoadIds :
    /\ loads[k].pc = "done" /\ loads[k].source = "cache"
    /\ Len(loads[k].result) >= 1

\* C9: a metrics query for a concrete server against a missing file returns
\* zero-valued metrics: total calls, success rate, average duration, p50, p95,
\* p99 and error rate all 0 and no top tools, whatever the cache holds.
C9_MissingFileZeroMetrics ==
  \A k \in LoadIds :
    (loads[k].pc = "done" /\ loads[k].source = "enoent") =>
      LET m == GetServerMetrics(loads[k].result, "srv_1", "1h", now) IN
      /\ m.total_calls = 0
      /\ m.success_rate.num = 0
      /\ m.avg_duration_ms.num = 0
      /\ m.p50_duration_ms = 0 /\ m.p95_duration_ms = 0 /\ m.p99_duration_ms = 0
      /\ m.error_rate.num = 0
      /\ m.top_tools = <<>>

\* JSON.parse accepts the line.
LineParses(line) == line \notin {CorruptLine, EmptyLine}

\* C10 as stated: a reload yields exactly one record per non-empty line that
\* parses, in line order, and never fails on an unparseable line.
C10_OneRecordPerParsingLine ==
  \A k \in LoadIds :
    LET l == loads[k] IN
    (l.pc = "done" /\ l.read = "ok") =>
      /\ l.source = "reload"
      /\ Len(l.result) = Cardinality({i \in DOMAIN l.content : LineParses(l.content[i])})

\* C10 amended: a reload yields exactly one record per non-empty line that
\* parses to a value other than null, in line order, and never fails on an
\* unparseable line; a line holding the JSON literal null is skipped as well.
C10_OneRecordPerEventLine ==
  \A k \in LoadIds :
    LET l == loads[k] IN
    (l.pc = "done" /\ l.read = "ok") =>
      /\ l.source = "reload"
      /\ l.result = EventsOfLines(l.content)

\* A reload of a file with an unparseable line before a record.
C10_Witness ==
  \E k \in LoadIds :
    LET l == loads[k] IN
    /\ l.pc = "done" /\ l.source = "reload"
    /\ \E i, j \in DOMAIN l.content :
         i < j /\ l.content[i] = CorruptLine /\ IsEventLine(l.content[j])
    /\ Len(l.result) >= 1

(***************************************************************************)
(* Properties of the file sink, checked under SpecSink.                    *)
(***************************************************************************)
\* JSON has a text for the value: no undefined and no NaN in it.
RECURSIVE JsonSafe(_)
JsonSafe(value) ==
  IF "obj" \in DOMAIN value THEN \A k \in DOMAIN value.obj : JsonSafe(value.obj[k])
  ELSE IF "arr" \in DOMAIN value THEN \A i \in DOMAIN value.arr : JsonSafe(value.arr[i])
  ELSE value \notin {NaN, Undefined}

C12_EmptyBatchNoIo ==
  [][\A k \in SendIds :
       (sends[k].pc = "idle" /\ sends'[k].pc # "idle" /\ sends'[k].batch = <<>>) =>
         /\ sends'[k].pc = "done" /\ sends'[k].outcome = "ok"
         /\ sends'[k].mkdir = "none" /\ sends'[k].appends = 0
         /\ UNCHANGED <<fileVars, dirState, fileCreated>>]_vars

\* send([]) has returned and neither the directory nor the file is there.
C12_Witness ==
  \E k \in SendIds :
    /\ sends[k].pc = "done" /\ sends[k].batch = <<>> /\ sends[k].outcome = "ok"
    /\ dirState = "missing" /\ ~fileExists /\ ~fileCreated

\* C13: a successful send(B) leaves the file as its previous content followed
\* by one line per event of B, the i-th the text of B[i], written by the one
\* append of that call; no step of a send changes or removes a line that is in
\* the file.
C13_AppendOnly ==
  [][/\ \A k \in SendIds :
          (sends[k].pc = "append" /\ sends'[k].outcome = "ok") =>
            /\ fileLines' = fileLines \o
                 [i \in DOMAIN sends[k].batch |-> EventLine(JsonOfEvent(sends[k].batch[i]))]
            /\ sends'[k].appends = 1
     /\ Len(fileLines') >= Len(fileLines)
     /\ SubSeq(fileLines', 1, Len(fileLines)) = fileLines]_vars

\* A batch of two events was appended to a file that had content.
C13_Witness ==
  \E k \in SendIds :
    /\ sends[k].pc = "done" /\ sends[k].outcome = "ok"
    /\ Len(sends[k].batch) >= 2
    /\ Len(fileLines) > Len(sends[k].batch)

\* C14 as stated: when mkdir or appendFile fails, send() rejects with that
\* error and tries nothing more; a send() makes at most one append.
C14_FailureReachesCaller ==
  \A k \in SendIds :
    /\ sends[k].appends <= 1
    /\ sends[k].pc = "done" =>
         /\ sends[k].mkdir \notin {"none", "ok"} =>
              sends[k].outcome = sends[k].mkdir /\ sends[k].appends = 0
         /\ sends[k].append \notin {"none", "ok"} =>
              sends[k].outcome = sends[k].append

\* C14 amended: the same, except that EEXIST from mkdir is ignored: send() goes
\* on to its append and rejects with the error of that append.
C14_FailureReachesCallerButEexist ==
  \A k \in SendIds :
    /\ sends[k].appends <= 1
    /\ sends[k].pc = "done" =>
         /\ sends[k].mkdir \notin {"none", "ok", "EEXIST"} =>
              sends[k].outcome = sends[k].mkdir /\ sends[k].appends = 0
         /\ sends[k].mkdir = "EEXIST" => sends[k].appends = 1
         /\ sends[k].append \notin {"none", "ok"} =>
              sends[k].outcome = sends[k].append

\* An append failed on a full volume and send() rejected with that error.
C14_Witness ==
  \E k \in SendIds :
    /\ sends[k].pc = "done" /\ sends[k].append = "ENOSPC"
    /\ sends[k].outcome = "ENOSPC" /\ sends[k].appends = 1

(***************************************************************************)
(* Claims about the views over tool calls                                  *)
(***************************************************************************)
\* The tool calls of `events` a view is about: of server `serverId` (of any
\* server when it is "all"), of tool `toolName` (of any tool when it is ""),
\* not older than the window `timeRange` at the time `now`.
MatchingCalls(events, serverId, toolName, timeRange) ==
  LET Matches(event) ==
        /\ IsToolCallEvent(event)
        /\ serverId = "all" \/ event.serverId = serverId
        /\ toolName = "" \/ event.toolName = toolName
        /\ event.timestamp >= Cutoff(now, timeRange)
  IN SelectSeq(events, Matches)

\* The durations of the calls that have one, in log order.
DefinedDurations(calls) ==
  LET HasDuration(event) == event.duration # NoDuration
      timed == SelectSeq(calls, HasDuration)
  IN [i \in DOMAIN timed |-> timed[i].duration]

\* v is the element at index k (from 0) of the numbers ds in ascending order.
IsAtSortedIndex(ds, k, v) ==
  /\ \E i \in DOMAIN ds : ds[i] = v
  /\ Cardinality({i \in DOMAIN ds : ds[i] < v}) <= k
  /\ k < Cardinality({i \in DOMAIN ds : ds[i] <= v})

\* The three percentiles of `stats` follow the rule for the durations of calls.
PercentilesOf(stats, calls) ==
  LET ds == DefinedDurations(calls)
      Rule(percent, reported) ==
        IF Len(ds) = 0 THEN reported = 0
        ELSE /\ (Len(ds) * percent) \div 100 < Len(ds)
             /\ IsAtSortedIndex(ds, (Len(ds) * percent) \div 100, reported)
  IN /\ Rule(50, stats.p50_duration_ms)
     /\ Rule(95, stats.p95_duration_ms)
     /\ Rule(99, stats.p99_duration_ms)

\* C15: every percentile p50, p95, p99 a view reports is the element at index
\* floor(p * N) of the N durations in ascending order, an index below N, and
\* is 0 when there is no duration; this holds in the metrics view, in the
\* tool-statistics view, and in both of their views over all servers (each
\* entry of `servers` and the aggregate).
C15_PercentileAtFloorIndex ==
  /\ view.op = "getServerMetrics" /\ view.serverId # NoServerId =>
       PercentilesOf(view.result.metrics,
                     MatchingCalls(view.events, view.serverId, "", view.timeRange))
  /\ view.op = "getServerMetrics" /\ view.serverId = NoServerId =>
       /\ PercentilesOf(view.result.aggregated_metrics,
                        MatchingCalls(view.events, "all", "", view.timeRange))
       /\ \A i \in DOMAIN view.result.servers :
            PercentilesOf(view.result.servers[i].metrics,
                          MatchingCalls(view.events, view.result.servers[i].server_id,
                                        "", view.timeRange))
  /\ view.op = "getToolStats" /\ view.serverId # NoServerId =>
       PercentilesOf(view.result.stats,
                     MatchingCalls(view.events, view.serverId, view.toolName,
                                   view.timeRange))
  /\ view.op = "getToolStats" /\ view.serverId = NoServerId =>
       /\ PercentilesOf(view.result.aggregated_stats,
                        MatchingCalls(view.events, "all", view.toolName, view.timeRange))
       /\ \A i \in DOMAIN view.result.servers :
            PercentilesOf(view.result.servers[i].stats,
                          MatchingCalls(view.events, view.result.servers[i].server_id,
                                        view.toolName, view.timeRange))

\* A metrics view over all servers whose three durations 100, 200, 300 give
\* p50 = 200 (index 1) and p95 = 300 (index 2).
C15_Witness ==
  /\ view.op = "getServerMetrics" /\ view.serverId = NoServerId
  /\ Len(DefinedDurations(MatchingCalls(view.events, "all", "", view.timeRange))) = 3
  /\ view.result.aggregated_metrics.p50_duration_ms = 200
  /\ view.result.aggregated_metrics.p95_duration_ms = 300
  /\ \E i \in DOMAIN view.result.servers :
       view.result.servers[i].metrics.p50_duration_ms = 200

\* Half of each window length in milliseconds: the lengths are 300000,
\* 3600000, 86400000, 604800000 and 2592000000 ms, the last of which is
\* beyond the integers TLC computes with.
WindowHalfMs ==
  [w \in TimeRanges |->
     CASE w = "5m" -> 150000
       [] w = "1h" -> 1800000
       [] w = "24h" -> 43200000
       [] w = "7d" -> 302400000
       [] w = "30d" -> 1296000000]

\* The number of tool calls of `events` that match the selector (and the tool,
\* unless it is "") and whose timestamp is at least now minus the window.
CallsInWindow(events, serverId, toolName, timeRange) ==
  Cardinality({i \in DOMAIN events :
                 /\ IsToolCallEvent(events[i])
                 /\ serverId = "all" \/ events[i].serverId = serverId
                 /\ toolName = "" \/ events[i].toolName = toolName
                 /\ events[i].timestamp
                      >= now - WindowHalfMs[timeRange] - WindowHalfMs[timeRange]})

\* C16: with window lengths of 300000 ms (5m), 3600000 ms (1h), 86400000 ms
\* (24h), 604800000 ms (7d) and 2592000000 ms (30d), the metrics, tool
\* statistics and cost views count exactly the matching tool calls whose
\* timestamp is >= now - window length: a call at the cutoff counts, an older
\* one does not.
C16_WindowCountsFromCutoff ==
  LET Count(serverId, toolName) ==
        CallsInWindow(view.events, serverId, toolName, view.timeRange)
      result == view.result
  IN
  /\ view.op = "getServerMetrics" /\ view.serverId # NoServerId =>
       result.metrics.total_calls = Count(view.serverId, "")
  /\ view.op = "getServerMetrics" /\ view.serverId = NoServerId =>
       /\ result.aggregated_metrics.total_calls = Count("all", "")
       /\ \A i \in DOMAIN result.servers :
            result.servers[i].metrics.total_calls = Count(result.servers[i].server_id, "")
  /\ view.op = "getToolStats" /\ view.serverId # NoServerId =>
       result.stats.total_calls = Count(view.serverId, view.toolName)
  /\ view.op = "getToolStats" /\ view.serverId = NoServerId =>
       /\ result.aggregated_stats.total_calls = Count("all", view.toolName)
       /\ \A i \in DOMAIN result.servers :
            result.servers[i].stats.total_calls
              = Count(result.servers[i].server_id, view.toolName)
  /\ view.op = "getCostEstimate" /\ view.serverId # NoServerId =>
       result.breakdown.total_calls = Count(view.serverId, "")
  /\ view.op = "getCostEstimate" /\ view.serverId = NoServerId =>
       /\ result.total_calls = Count("all", "")
       /\ \A i \in DOMAIN result.servers :
            result.servers[i].breakdown.total_calls = Count(result.servers[i].server_id, "")

\* A cost view of srv_1 over 30d on a log with one call of srv_1 exactly at
\* the cutoff and one call 1 ms older: the view counts one call.
C16_Witness ==
  /\ view.op = "getCostEstimate" /\ view.serverId = "srv_1" /\ view.timeRange = "30d"
  /\ Len(view.events) = 2
  /\ \E i, j \in DOMAIN view.events :
       /\ IsToolCallEvent(view.events[i]) /\ view.events[i].serverId = "srv_1"
       /\ view.events[i].timestamp = now - 1296000000 - 1296000000
       /\ IsToolCallEvent(view.events[j]) /\ view.events[j].serverId = "srv_1"
       /\ view.events[j].timestamp = now - 1296000000 - 1296000000 - 1
  /\ view.result.breakdown.total_calls = 1

\* C17: each entry of `servers` in the metrics view over all servers carries
\* the statistics of the metrics view of that one server over the same events
\* and window, and likewise each entry of the tool-statistics and cost views
\* over all servers.
C17_EntryIsSingleServerView ==
  view # NoView /\ view.serverId = NoServerId =>
    \A i \in DOMAIN view.result.servers :
      LET entry == view.result.servers[i] IN
      /\ view.op = "getServerMetrics" =>
           entry.metrics
             = GetServerMetrics(view.events, entry.server_id, view.timeRange, now)
      /\ view.op = "getToolStats" =>
           entry.stats
             = GetToolStats(view.events, entry.server_id, view.toolName,
                            view.timeRange, now).stats
      /\ view.op = "getCostEstimate" =>
           LET single == GetCostEstimate(view.events, entry.server_id, view.timeRange, now)
           IN /\ entry.estimated_cost_usd = single.estimated_cost_usd
              /\ entry.breakdown = single.breakdown

\* A cost view over all servers with two entries, the first of two calls and
\* the second of one.
C17_Witness ==
  /\ view.op = "getCostEstimate" /\ view.serverId = NoServerId
  /\ Len(view.result.servers) = 2
  /\ view.result.servers[1].breakdown.total_calls = 2
  /\ view.result.servers[2].breakdown.total_calls = 1

\* C18: in the metrics view over all servers the aggregate total_calls is the
\* sum of the entries' total_calls, the aggregate number of successful calls
\* is the sum of the entries' numbers, total_servers is the number of entries,
\* and the entries are, once each, exactly the servers with at least one tool
\* call in the window: no entry has zero calls.
C18_AggregateIsSumOfEntries ==
  view.op = "getServerMetrics" /\ view.serverId = NoServerId =>
    LET servers == view.result.servers
        aggregated == view.result.aggregated_metrics
        Successes(metrics) ==
          IF metrics.total_calls = 0 THEN 0
          ELSE (metrics.success_rate.num * metrics.total_calls)
                 \div metrics.success_rate.den
    IN
    /\ aggregated.total_calls
         = SumSeq([i \in DOMAIN servers |-> servers[i].metrics.total_calls])
    /\ Successes(aggregated)
         = SumSeq([i \in DOMAIN servers |-> Successes(servers[i].metrics)])
    /\ aggregated.total_servers = Len(servers)
    /\ \A i, j \in DOMAIN servers : servers[i].server_id = servers[j].server_id => i = j
    /\ {servers[i].server_id : i \in DOMAIN servers}
         = {serverId \in {view.events[i].serverId : i \in DOMAIN view.events} :
              CallsInWindow(view.events, serverId, "", view.timeRange) > 0}
    /\ \A i \in DOMAIN servers : servers[i].metrics.total_calls > 0

\* A metrics view over all servers on a log of three calls, one of them older
\* than the window: two entries, two calls in all, one of them successful.
C18_Witness ==
  /\ view.op = "getServerMetrics" /\ view.serverId = NoServerId
  /\ Len(view.events) = 3
  /\ \E i \in DOMAIN view.events :
       /\ IsToolCallEvent(view.events[i])
       /\ view.events[i].timestamp < Cutoff(now, view.timeRange)
  /\ Len(view.result.servers) = 2
  /\ view.result.aggregated_metrics.total_calls = 2
  /\ view.result.aggregated_metrics.success_rate = Rat(1, 2)

(***************************************************************************)
(* Claims about the error-log view                                         *)
(***************************************************************************)
\* The error records of server `serverId` among `events`, by position.
ErrorRecordsOf(events, serverId) ==
  {i \in DOMAIN events : IsErrorEvent(events[i]) /\ events[i].serverId = serverId}

\* C19: the error-log view of one server, when nothing is cut off by the
\* limit, has exactly one entry for each distinct pair of errorType and
\* message among the error records of that server; the frequency of an entry
\* is the number of those records with its pair, and the frequencies add up
\* to total_count.
C19_OneEntryPerPair ==
  view.op = "getErrorLogs" /\ view.serverId # NoServerId /\ view.limit = NoLimit =>
    LET records == ErrorRecordsOf(view.events, view.serverId)
        pairs == {<<view.events[i].errorType, view.events[i].message>> : i \in records}
        errors == view.result.errors
    IN /\ {<<errors[i].error_type, errors[i].message>> : i \in DOMAIN errors} = pairs
       /\ Len(errors) = Cardinality(pairs)
       /\ \A i \in DOMAIN errors :
            errors[i].frequency
              = Cardinality({j \in records :
                               /\ view.events[j].errorType = errors[i].error_type
                               /\ view.events[j].message = errors[i].message})
       /\ SumSeq([i \in DOMAIN errors |-> errors[i].frequency]) = view.result.total_count

\* The entry reports id, timestamp and stack of one record of server
\* `serverId`, and no record of that record's group has a later timestamp.
ReportsMostRecent(events, serverId, entry) ==
  \E i \in ErrorRecordsOf(events, serverId) :
    /\ events[i].id = entry.id
    /\ ToISOString(events[i].timestamp) = entry.timestamp
    /\ events[i].stack = entry.stack
    /\ \A j \in ErrorRecordsOf(events, serverId) :
         ErrorKey(events[j]) = ErrorKey(events[i])
           => events[j].timestamp <= events[i].timestamp

\* C20: every entry of the error-log view, of one server or of all servers,
\* reports the id, timestamp and stack of a record whose timestamp is the
\* maximum over its group, in whatever order the records are in the log.
C20_EntryReportsMostRecent ==
  view.op = "getErrorLogs" =>
    IF view.serverId # NoServerId
    THEN \A i \in DOMAIN view.result.errors :
           ReportsMostRecent(view.events, view.serverId, view.result.errors[i])
    ELSE \A k \in DOMAIN view.result.servers :
           \A i \in DOMAIN view.result.servers[k].errors :
             ReportsMostRecent(view.events, view.result.servers[k].server_id,
                               view.result.servers[k].errors[i])

\* The key of the group of an entry of the error-log view.
EntryKey(entry) == ErrorKey([errorType |-> entry.error_type, message |-> entry.message])

\* The number of error records of server `serverId` in the group `key`.
GroupSize(events, serverId, key) ==
  Cardinality({i \in ErrorRecordsOf(events, serverId) : ErrorKey(events[i]) = key})

\* The entries of every server of an error-log view, each with its server:
\* the only list of a view of one server, the lists of `servers` otherwise.
ListedEntries ==
  IF view.serverId # NoServerId
  THEN {[serverId |-> view.serverId, entry |-> view.result.errors[i]] :
          i \in DOMAIN view.result.errors}
  ELSE UNION {{[serverId |-> view.result.servers[k].server_id,
                entry |-> view.result.servers[k].errors[i]] :
                 i \in DOMAIN view.result.servers[k].errors} :
                k \in DOMAIN view.result.servers}

\* The groups the view chooses from: server and key of every error record of
\* the selected servers.
GroupsOfView ==
  {[serverId |-> view.events[i].serverId, key |-> ErrorKey(view.events[i])] :
     i \in {j \in DOMAIN view.events :
              /\ IsErrorEvent(view.events[j])
              /\ view.serverId = NoServerId \/ view.events[j].serverId = view.serverId}}

\* C21: an error-log view asked for limit n >= 0 has at most n entries, at
\* most 50 when no limit is given: the first n of the groups in the order of
\* descending frequency (as many entries as there are groups if those are
\* fewer; every list is in that order, each entry has the frequency of its
\* group, and no group left out is more frequent than a listed one).  Over
\* all servers the limit bounds the number of entries of all lists together.
\* Every total_count counts all error records, listed or not.
C21_LimitBoundsEntries ==
  view.op = "getErrorLogs" =>
    LET n == IF view.limit = NoLimit THEN 50 ELSE view.limit
        listed == {[serverId |-> l.serverId, key |-> EntryKey(l.entry)] : l \in ListedEntries}
        Lists == IF view.serverId # NoServerId THEN {view.result.errors}
                 ELSE {view.result.servers[k].errors : k \in DOMAIN view.result.servers}
    IN /\ Cardinality(ListedEntries) <= n
       /\ Cardinality(ListedEntries)
            = IF Cardinality(GroupsOfView) < n THEN Cardinality(GroupsOfView) ELSE n
       /\ Cardinality(listed) = Cardinality(ListedEntries)
       /\ listed \subseteq GroupsOfView
       /\ \A l \in ListedEntries :
            /\ l.entry.frequency = GroupSize(view.events, l.serverId, EntryKey(l.entry))
            /\ \A g \in GroupsOfView \ listed :
                 GroupSize(view.events, g.serverId, g.key) <= l.entry.frequency
       /\ \A errors \in Lists :
            \A i, j \in DOMAIN errors : i < j => errors[i].frequency >= errors[j].frequency
       /\ IF view.serverId # NoServerId
          THEN view.result.total_count
                 = Cardinality(ErrorRecordsOf(view.events, view.serverId))
          ELSE /\ view.result.total_count
                    = Cardinality({i \in DOMAIN view.events : IsErrorEvent(view.events[i])})
               /\ \A k \in DOMAIN view.result.servers :
                    view.result.servers[k].total_count
                      = Cardinality(ErrorRecordsOf(view.events,
                                                   view.result.servers[k].server_id))

(***************************************************************************)
(* Claims about the performance analysis                                   *)
(***************************************************************************)
\* The insights of the analysis of one server's metrics follow the
\* thresholds, and the health score is max(0, 1 - error rate) within [0, 1].
FollowsThresholds(metrics, insights, health_score) ==
  LET errorRate == metrics.error_rate
      Slow(i) == insights[i].type = "slow_tool"
      Spike(i) == insights[i].type = "error_spike"
  IN /\ \A t \in DOMAIN metrics.top_tools :
          LET tool == metrics.top_tools[t]
              mean == tool.avg_duration_ms
          IN /\ (\E i \in DOMAIN insights : Slow(i) /\ insights[i].tool_name = tool.name)
                  <=> mean.num > 1000 * mean.den
             /\ \A i \in DOMAIN insights :
                  Slow(i) /\ insights[i].tool_name = tool.name =>
                    insights[i].severity
                      = IF mean.num > 5000 * mean.den THEN "high" ELSE "medium"
     /\ \A i \in DOMAIN insights :
          Slow(i) => \E t \in DOMAIN metrics.top_tools :
                       metrics.top_tools[t].name = insights[i].tool_name
     /\ (\E i \in DOMAIN insights : Spike(i)) <=> 10 * errorRate.num > errorRate.den
     /\ \A i \in DOMAIN insights :
          Spike(i) => insights[i].severity
                        = IF 10 * errorRate.num > 3 * errorRate.den THEN "critical"
                          ELSE "high"
     /\ health_score.num * errorRate.den
          = health_score.den * (IF errorRate.num > errorRate.den THEN 0
                                ELSE errorRate.den - errorRate.num)
     /\ 0 <= health_score.num /\ health_score.num <= health_score.den

\* C23: in the performance analysis of one server there is a slow_tool
\* insight for a tool of top_tools exactly when its mean duration is above
\* 1000 ms, of severity high above 5000 ms and medium otherwise; there is an
\* error_spike insight exactly when the error rate is above 0.1, of severity
\* critical above 0.3 and high otherwise; the health score is
\* max(0, 1 - error rate) and lies in [0, 1].
C23_InsightThresholds ==
  (/\ view.op = "analyzePerformance" /\ view.serverId # NoServerId
   /\ "insights" \in DOMAIN view.result) =>
    FollowsThresholds(GetServerMetrics(view.events, view.serverId,
                                       TimeRangeOr(view.timeRange, "1h"), now),
                      view.result.insights, view.result.health_score)

RECURSIVE ProductOf(_)
ProductOf(numbers) ==
  IF numbers = <<>> THEN 1 ELSE Head(numbers) * ProductOf(Tail(numbers))

\* C24: in the performance analysis of all servers critical_insights holds
\* exactly the insights of the servers whose severity is high or critical,
\* each once and none of severity medium, and overall_health_score is the
\* unweighted mean of the servers' health scores and lies in [0, 1].
C24_CriticalInsightsAndMeanHealth ==
  view.op = "analyzePerformance" /\ view.serverId = NoServerId =>
    LET servers == view.result.servers
        critical == view.result.critical_insights
        overall == view.result.overall_health_score
        severe == {p \in UNION {{<<k, i>> : i \in DOMAIN servers[k].insights} :
                                  k \in DOMAIN servers} :
                     servers[p[1]].insights[p[2]].severity \in {"high", "critical"}}
        dens == [k \in DOMAIN servers |-> servers[k].health_score.den]
        scaled == [k \in DOMAIN servers |->
                     servers[k].health_score.num * (ProductOf(dens) \div dens[k])]
    IN /\ {critical[i] : i \in DOMAIN critical}
            = {servers[p[1]].insights[p[2]] : p \in severe}
       /\ Len(critical) = Cardinality(severe)
       /\ \A i \in DOMAIN critical : critical[i].severity # "medium"
       /\ IF Len(servers) = 0 THEN overall = Rat(1, 1)
          ELSE overall.num * ProductOf(dens) * Len(servers) = overall.den * SumSeq(scaled)
       /\ 0 <= overall.num /\ overall.num <= overall.den

\* An analysis of all servers: srv_1 with a medium insight and health 1,
\* srv_2 with a high and a critical insight and health 0; the overall health
\* score is 1/2 and critical_insights has the two insights of srv_2.
C24_Witness ==
  /\ view.op = "analyzePerformance" /\ view.serverId = NoServerId
  /\ Len(view.result.servers) = 2
  /\ \E i \in DOMAIN view.result.servers[1].insights :
       view.result.servers[1].insights[i].severity = "medium"
  /\ view.result.servers[1].health_score = Rat(1, 1)
  /\ view.result.servers[2].health_score = Rat(0, 1)
  /\ Len(view.result.critical_insights) = 2
  /\ view.result.overall_health_score.num * 2 = view.result.overall_health_score.den

(***************************************************************************)
(* Claims about every view                                                 *)
(***************************************************************************)
\* The logs with the records of `events` in any line order.
Reorderings(events) ==
  {[i \in DOMAIN events |-> events[p[i]]] :
     p \in {f \in [DOMAIN events -> DOMAIN events] :
              \A i, j \in DOMAIN events : f[i] = f[j] => i = j}}

\* The result of the query that gave the view v, on the records `events` at
\* the time `time`.
ResultOf(v, events, time) ==
  CASE v.op = "getServerMetrics" ->
         ServerMetricsView(events, v.serverId, v.timeRange, time)
    [] v.op = "getToolStats" ->
         GetToolStats(events, v.serverId, v.toolName, v.timeRange, time)
    [] v.op = "getCostEstimate" ->
         GetCostEstimate(events, v.serverId, v.timeRange, time)
    [] v.op = "getErrorLogs" -> GetErrorLogs(events, v.serverId, v.limit)
    [] v.op = "analyzePerformance" ->
         AnalyzePerformance(events, v.serverId, v.timeRange, time)

\* The result of the query of `view` on the records `events`.
ResultOn(events) == ResultOf(view, events, now)

\* C22: a view does not depend on the line order of the log: the same query
\* at the same time on a log with the same records in another order returns
\* the same result.
C22_ViewsIgnoreLineOrder ==
  view # NoView => \A events \in Reorderings(view.events) : ResultOn(events) = view.result

(***************************************************************************)
(* Claims about recording and the batch timer                              *)
(***************************************************************************)
\* How often the event `id` is in the queue or in a batch being sent.
Occurrences(id, queue, sending) ==
  Cardinality({i \in DOMAIN queue : queue[i] = id})
    + Cardinality({p \in UNION {{<<d, i>> : i \in DOMAIN d.events} : d \in sending} :
                     p[1].events[p[2]] = id})

\* C25: every trackError call enqueues exactly one record, whatever the
\* sampling rate is: after the call the new event is once in the queue, or in
\* the batch the call sent off, and every other event is where it was.
C25_TrackErrorAlwaysEnqueues ==
  [][lastCall'.op = "trackError" /\ (lastCall' # lastCall \/ nextId' # nextId) =>
       /\ lastCall'.enqueued
       /\ nextId' = nextId + 1
       /\ Occurrences(nextId', eventQueue, inflight) = 0
       /\ Occurrences(nextId', eventQueue', inflight') = 1
       /\ \A id \in 1 .. nextId :
            Occurrences(id, eventQueue', inflight') = Occurrences(id, eventQueue, inflight)
    ]_vars

\* A collector with sampling rate 0 after trackError: the event is queued.
C25_Witness ==
  /\ sampling = 0
  /\ lastCall = [op |-> "trackError", enqueued |-> TRUE]
  /\ nextId = 1
  /\ Occurrences(1, eventQueue, inflight) = 1

\* C26: at most one timeout of the collector is armed at any time; an
\* enqueue that leaves the queue below the batch size arms one only when none
\* is armed, and leaves an armed one as it is: not replaced, not restarted.
C26_AtMostOneTimer ==
  /\ [](Cardinality(timeouts.live) <= 1)
  /\ [][nextId' = nextId + 1 /\ eventQueue' = Append(eventQueue, nextId') =>
          /\ Len(eventQueue') < batchSize
          /\ IF timeouts.live = {}
             THEN timeouts'.live \subseteq {nextId'}
             ELSE timeouts' = timeouts /\ batchTimer' = batchTimer
       ]_vars

\* The timer armed by the first event is still the only one after the second
\* event was enqueued.
C26_Witness ==
  /\ eventQueue = <<1, 2>>
  /\ batchTimer = "pending"
  /\ timeouts = [live |-> {1}, handle |-> 1]

\* The event `id` waits in the queue and the timeout that will flush it is live.
WaitsForTimer(id) ==
  /\ \E i \in DOMAIN eventQueue : eventQueue[i] = id
  /\ batchTimer = "pending"
  /\ timeouts.handle \in timeouts.live

\* reporter.send was called with a batch that holds the event `id`; the call
\* came from the timer callback unless the application made a later
\* trackToolCall, trackError, flush or shutdown call (`calls` is the number of
\* events tracked when the event was waiting).
SentAfterWait(id, calls) ==
  \E d \in inflight :
    /\ \E i \in DOMAIN d.events : d.events[i] = id
    /\ d.origin = "timer" \/ d.origin \in {"flush", "shutdown"} \/ nextId > calls

\* C27: an enqueue that leaves the queue below the batch size leaves a live
\* timeout behind, and an event that waits in the queue with a live timeout is
\* eventually in a batch handed to reporter.send: by the timer callback, when
\* the application makes no further trackToolCall, trackError, flush or
\* shutdown call.
C27_TimerDeliversEnqueued ==
  /\ [][nextId' = nextId + 1 /\ eventQueue' = Append(eventQueue, nextId') =>
          batchTimer' = "pending" /\ timeouts'.handle \in timeouts'.live]_vars
  /\ \A id \in 1 .. MaxEvents : \A calls \in id .. MaxEvents :
       (WaitsForTimer(id) /\ nextId = calls) ~> SentAfterWait(id, calls)

\* The timer callback sent the only event tracked; no flush or shutdown call
\* was made.
C27_Witness ==
  /\ nextId = 1
  /\ inflight = {[events |-> <<1>>, origin |-> "timer"]}
  /\ eventQueue = <<>>
  /\ pcShutdown = "idle"

(***************************************************************************)
(* Claims about top_tools and the cost estimate                            *)
(***************************************************************************)
\* The lists of top_tools of a metrics view, each with the server it is of:
\* the one of a single server, or one for each entry of `servers`.
TopToolsLists ==
  IF view.op # "getServerMetrics" THEN {}
  ELSE IF view.serverId # NoServerId
  THEN {[server_id |-> view.serverId, top_tools |-> view.result.metrics.top_tools]}
  ELSE {[server_id |-> view.result.servers[i].server_id,
         top_tools |-> view.result.servers[i].metrics.top_tools] :
          i \in DOMAIN view.result.servers}

\* C28: in the metrics view the avg_duration_ms of every entry of top_tools
\* is the mean of the durations of that tool's matching calls that have a
\* duration (0 when none has): calls without a duration count neither in the
\* sum nor in the divisor.
C28_TopToolMeanOverTimedCalls ==
  \A list \in TopToolsLists : \A i \in DOMAIN list.top_tools :
    LET entry == list.top_tools[i]
        ds == DefinedDurations(MatchingCalls(view.events, list.server_id, entry.name,
                                             view.timeRange))
    IN IF Len(ds) = 0 THEN entry.avg_duration_ms.num = 0
       ELSE entry.avg_duration_ms.num * Len(ds) = SumSeq(ds) * entry.avg_duration_ms.den

\* The names of the tools among `calls`.
ToolsCalled(calls) == {calls[i].toolName : i \in DOMAIN calls}

\* C29: in the metrics view top_tools has at most 10 entries, in order of
\* non-increasing calls; no name is listed twice, the calls of an entry are
\* the number of matching calls of that tool, and no tool left out has more
\* matching calls than a listed one.
C29_TopToolsRanking ==
  \A list \in TopToolsLists :
    LET top == list.top_tools
        CallsOf(name) ==
          Len(MatchingCalls(view.events, list.server_id, name, view.timeRange))
        called == ToolsCalled(MatchingCalls(view.events, list.server_id, "",
                                            view.timeRange))
        listed == {top[i].name : i \in DOMAIN top}
    IN /\ Len(top) <= 10
       /\ \A i, j \in DOMAIN top : i < j => top[i].calls >= top[j].calls
       /\ \A i, j \in DOMAIN top : i # j => top[i].name # top[j].name
       /\ \A i \in DOMAIN top : top[i].name \in called /\ top[i].calls = CallsOf(top[i].name)
       /\ \A name \in called \ listed : \A i \in DOMAIN top : CallsOf(name) <= top[i].calls
       /\ Len(top) < 10 => listed = called

\* Eleven tools were called: top_tools lists ten of them, first the one that
\* was called twice and came last in the log.
C29_Witness ==
  /\ view.op = "getServerMetrics" /\ view.serverId = "srv_1"
  /\ Cardinality(ToolsCalled(MatchingCalls(view.events, "srv_1", "", view.timeRange))) = 11
  /\ Len(view.result.metrics.top_tools) = 10
  /\ view.result.metrics.top_tools[1].name = "t11"
  /\ view.result.metrics.top_tools[1].calls = 2

\* The quotient `cost` is `calls` times 0.001.
IsCostOf(cost, calls) == cost.num * 1000 = calls * cost.den

\* C30: the cost view reports as estimated cost the number of matching tool
\* calls in the window times 0.001; over all servers its total_calls is the
\* sum of the calls of the entries of `servers`, and its total cost is
\* total_calls times 0.001.
C30_CostIsCallsTimesConstant ==
  LET Count(serverId) == CallsInWindow(view.events, serverId, "", view.timeRange)
      result == view.result
  IN
  /\ view.op = "getCostEstimate" /\ view.serverId # NoServerId =>
       /\ IsCostOf(result.estimated_cost_usd, Count(view.serverId))
       /\ result.breakdown.tool_calls = Count(view.serverId)
       /\ IsCostOf(result.breakdown.cost_per_call, 1)
  /\ view.op = "getCostEstimate" /\ view.serverId = NoServerId =>
       /\ result.total_calls = Count("all")
       /\ result.total_calls =
            SumSeq([i \in DOMAIN result.servers |-> result.servers[i].breakdown.total_calls])
       /\ IsCostOf(result.total_estimated_cost_usd, result.total_calls)
       /\ \A i \in DOMAIN result.servers :
            IsCostOf(result.servers[i].estimated_cost_usd,
                     Count(result.servers[i].server_id))

\* The cost over two servers with three calls in the window: 0.003, the sum
\* of 0.002 and 0.001.
C30_Witness ==
  /\ view.op = "getCostEstimate" /\ view.serverId = NoServerId
  /\ Len(view.result.servers) = 2
  /\ view.result.total_calls = 3
  /\ view.result.total_estimated_cost_usd = Rat(3, 1000)
  /\ \E i \in DOMAIN view.result.servers :
       view.result.servers[i].estimated_cost_usd = Rat(2, 1000)

(***************************************************************************)
(* Claims about flush, the queue and shutdown                              *)
(***************************************************************************)
\* The queue a flush() of this step starts with: the queue, with the new
\* event when the step is a record call.
QueueAtFlush == IF nextId' = nextId THEN eventQueue ELSE Append(eventQueue, nextId')

\* C31: a step in which reporter.send is invoked starts from a non-empty
\* queue, leaves the queue empty and no timeout armed, and invokes send once,
\* with the events of the queue in their order; a flush() that starts with a
\* non-empty queue (here: by the timer callback or by shutdown) invokes send
\* in that step, and one that starts with an empty queue invokes nothing and
\* leaves queue, timer and sends in flight as they were.
C31_FlushSwapsQueueAtOnce ==
  /\ [][inflight' \ inflight # {} =>
          /\ QueueAtFlush # <<>>
          /\ \E origin \in {"addEvent", "timer", "flush", "shutdown"} :
               inflight' = inflight \cup {[events |-> QueueAtFlush, origin |-> origin]}
          /\ eventQueue' = <<>>
          /\ batchTimer' = "null"
          /\ timeouts'.live = {}
       ]_vars
  /\ [][(pcShutdown = "idle" /\ pcShutdown' = "flushing")
          \/ (nextId' = nextId /\ timeouts'.live # timeouts.live) =>
          IF eventQueue = <<>>
          THEN UNCHANGED <<eventQueue, batchTimer, timeouts, inflight>>
          ELSE inflight' \ inflight # {}
       ]_vars

\* An explicit flush() sent two events in their order while the timer of the
\* first was armed; the timer is cancelled.
C31_Witness ==
  /\ inflight = {[events |-> <<1, 2>>, origin |-> "flush"]}
  /\ eventQueue = <<>>
  /\ batchTimer = "null"
  /\ timeouts.live = {}

(***************************************************************************)
(* Claims about the cache of loadEvents                                    *)
(***************************************************************************)
\* The loadEvents() call k ends in this step, with its result from `source`.
LoadEndsFrom(k, source) ==
  loads[k].pc # "done" /\ loads'[k].pc = "done" /\ loads'[k].source = source

Deliveries(id) == Cardinality({i \in DOMAIN delivered : delivered[i] = id})

\* C34: with a send that delivers its whole batch or nothing, every event
\* that reached addEvent is in exactly one place, once: the queue, a batch
\* whose send has not settled, or the delivered events; and nothing else is
\* in any of them.
C34_EveryEventInOnePlace ==
  /\ \A id \in 1 .. nextId : Occurrences(id, eventQueue, inflight) + Deliveries(id) = 1
  /\ \A i \in DOMAIN eventQueue : eventQueue[i] \in 1 .. nextId
  /\ \A i \in DOMAIN delivered : delivered[i] \in 1 .. nextId
  /\ \A d \in inflight : \A i \in DOMAIN d.events : d.events[i] \in 1 .. nextId

\* One event is delivered, one is back in the queue after its send failed,
\* and one is being sent.
C34_Witness ==
  /\ failures = 1
  /\ Len(delivered) = 1 /\ Len(eventQueue) = 1
  /\ \E d \in inflight : Len(d.events) = 1
  /\ nextId = 3

\* C35: whenever the queue is not empty, a timeout is armed or a send has not
\* settled, so that the events in the queue reach reporter.send without
\* another record call.
C35_QueuedEventsHaveTimerOrSend ==
  eventQueue # <<>> => timeouts.live # {} \/ inflight # {}

\* C36: as long as no send has failed, the events in the log file are in the
\* order in which they were enqueued (the order of their numbers), whatever
\* the order in which record calls, the timer callback, and the mkdir and
\* appendFile calls of the sends settle.
C36_FileInEnqueueOrder ==
  (failures = 0 /\ \A k \in DOMAIN sends : sends[k].outcome \in {"none", "ok"}) =>
    \A i, j \in DOMAIN written : i < j => written[i].id < written[j].id

\* C37: once shutdown() has resolved, no send is outstanding, no timeout is
\* armed and the queue is empty: every event recorded before the call has
\* been through reporter.send before reporter.shutdown() ran.
C37_NothingPendingAfterShutdown ==
  pcShutdown = "done" => inflight = {} /\ timeouts.live = {} /\ eventQueue = <<>>

\* The modification time of the file version that holds exactly `events`: the
\* time of the write of its last event (0: no event).
VersionOf(events) == IF events = <<>> THEN 0 ELSE events[Len(events)].timestamp

\* C38 as stated: with overlapping loads and a writer whose every append
\* changes the modification time, the recorded modification time is never
\* newer than the file version the cached events were read from, and a load
\* that returns the cache returns exactly the events the file then holds.
C38_CacheHitIsCurrentFile ==
  /\ [](eventsCache # NoCache => lastFileModificationTime <= VersionOf(eventsCache))
  /\ [][\A k \in DOMAIN loads :
          LoadEndsFrom(k, "cache") => loads'[k].result = ParseContent(fileLines)]_vars

\* C38: with overlapping loads and a writer whose every append changes the
\* modification time, the recorded modification time is never newer than the
\* file version the cached events were read from; a load that returns the
\* cache returns events the file held at a moment between its stat() and its
\* return: a file version not older than the one its stat() saw and not newer
\* than the file is then.
C38_CacheHitNotOlderThanStat ==
  /\ [](eventsCache # NoCache => lastFileModificationTime <= VersionOf(eventsCache))
  /\ [][\A k \in DOMAIN loads :
          LoadEndsFrom(k, "cache") =>
            /\ loads'[k].result = eventsCache
            /\ loads[k].mtime <= VersionOf(loads'[k].result)
            /\ Len(loads'[k].result) <= Len(fileLines)
            /\ loads'[k].result =
                 ParseContent(SubSeq(fileLines, 1, Len(loads'[k].result)))]_vars

\* A load returned cached events that another load, which overlapped it, had
\* read after an append: they are newer than the file was at its stat().
C38_Witness ==
  \E k \in DOMAIN loads :
    /\ loads[k].pc = "done" /\ loads[k].source = "cache"
    /\ loads[k].mtime < VersionOf(loads[k].result)
    /\ lastFileModificationTime < VersionOf(eventsCache)

(***************************************************************************)
(* Claims about the serverId of the performance analysis                   *)
(***************************************************************************)
\* C39: the performance analysis with a serverId, the text 'all' included,
\* does not throw and returns the analysis of one server: server_id is the
\* serverId, insights and health_score are those of the metrics of that
\* server's calls; the analysis of all servers is returned exactly when no
\* serverId is given.
C39_AnalysisOfAnyServerId ==
  view.op = "analyzePerformance" =>
    IF view.serverId = NoServerId
    THEN "servers" \in DOMAIN view.result /\ view.result.server_id = "all"
    ELSE /\ "threw" \notin DOMAIN view.result
         /\ DOMAIN view.result
              = {"server_id", "time_range", "insights", "health_score", "trend"}
         /\ view.result.server_id = view.serverId
         /\ LET metrics == GetServerMetrics(view.events, view.serverId,
                                            TimeRangeOr(view.timeRange, "1h"), now)
            IN /\ view.result.insights = InsightsOf("", metrics)
               /\ view.result.health_score = HealthScore(metrics.error_rate)

\* C40: when no tool call of the server lies in the window, the performance
\* analysis of that server has no error_spike insight and its health score is
\* the overall health score of the analysis of all servers on an empty log.
C40_NoCallsNoErrorSpike ==
  (/\ view.op = "analyzePerformance" /\ view.serverId # NoServerId
   /\ "insights" \in DOMAIN view.result
   /\ MatchingCalls(view.events, view.serverId, "",
                    TimeRangeOr(view.timeRange, "1h")) = <<>>) =>
    LET overall == AnalyzePerformance(<<>>, NoServerId, view.timeRange,
                                      now).overall_health_score
        health == view.result.health_score
    IN /\ \A i \in DOMAIN view.result.insights :
            view.result.insights[i].type # "error_spike"
       /\ health.num * overall.den = overall.num * health.den

====
